---- MODULE Spec2Model ----
(***************************************************************************)
(* Model of the catalog & listening-state synchronization engine of        *)
(* apple-podcast-helper: the manifest store (load / save / upsert /        *)
(* merge), the relative-path rewrite done while re-homing documents, the   *)
(* batch synchronization pass and the interactive selector.                *)
(*                                                                         *)
(* Value encoding.  JavaScript null is the string "NULL", a missing object *)
(* key (or undefined) is "UNDEF", a missing timestamp is 0.  Timestamps    *)
(* are the integers 1..MaxClock (ISO strings ordered by time).  Key order  *)
(* inside JSON objects is not modelled: two objects are JSON.stringify-    *)
(* equal exactly when the records that model them are equal.               *)
(***************************************************************************)
EXTENDS Integers, Sequences, FiniteSets, TLC

\* ------------------------------------------------------------------ bounds
MaxClock == 2
MaxPasses == 2
MaxEntries == 3
MaxBuffer == 2

\* ------------------------------------------------------------ value space
NULL == "NULL"
UNDEF == "UNDEF"
NoTime == 0

Ids == {"A", "B"}

\* Base file names `${showSlug}_${dateSegment}_${episodeSlug}` are "x" and,
\* with a collision suffix, "x-1".

\* listeningStatus of a metadata object is NULL (no listeningStatus), UNDEF (a
\* listeningStatus object without playState), "" or a play state.

\* ItemMetadata.  kind "null" is null/undefined, kind "scalar" is a truthy
\* value that is not an object, kind "object" is a metadata object.
\* title stands for the (showTitle, pubDate, episodeTitle) triple, named by the
\* base name it slugifies to; baseFileName is the metadata field of that name.
NoMeta == [kind |-> "null", title |-> "", baseFileName |-> "", ls |-> NULL]
ScalarMeta == [kind |-> "scalar", title |-> "", baseFileName |-> "", ls |-> NULL]
MetaObj(b, l) == [kind |-> "object", title |-> b, baseFileName |-> b, ls |-> l]

\* relative paths: null, the empty string, or dir/name.md
NullPath == [dir |-> NULL, name |-> ""]
EmptyPath == [dir |-> "", name |-> ""]
DocPath(d, n) == [dir |-> d, name |-> n]

\* `x || null` for strings, paths, metadata
OrNull(x) == IF x \in {UNDEF, "", NULL} THEN NULL ELSE x
PathOrNull(p) == IF p \in {NullPath, EmptyPath} THEN NullPath ELSE p
MetaOrNull(m) == IF m.kind = "null" THEN NoMeta ELSE m

\* cloneMetadata: JSON round trip of an object, null for anything else
CloneMetadata(m) == IF m.kind # "object" THEN NoMeta ELSE m

\* a manifest entry slot that holds no entry (manifest.entries[id] undefined)
NoEntry ==
    [present |-> FALSE, identifier |-> "", metadata |-> NoMeta,
     relativePath |-> NullPath, playState |-> NULL, skipReason |-> NULL,
     lastProcessedAt |-> NoTime, lastUpdatedAt |-> NoTime]

EmptyEntries == [i \in Ids |-> NoEntry]

\* comparable projection of the stored entry
PrevComparable(existing) ==
    [metadata |-> MetaOrNull(existing.metadata),
     relativePath |-> PathOrNull(existing.relativePath),
     playState |-> OrNull(existing.playState),
     skipReason |-> OrNull(existing.skipReason),
     lastProcessedAt |-> existing.lastProcessedAt]

\* NextComparable with lastProcessedAt stamped on every call
NextComparable_StampsProcessedAlways(existing, p, nowIso) ==
    LET serializedMetadata ==
            IF p.metadata.kind # "null" THEN CloneMetadata(p.metadata)
            ELSE MetaOrNull(existing.metadata)
    IN  [metadata |-> serializedMetadata,
         relativePath |-> IF p.relativePath # NullPath THEN p.relativePath
                          ELSE PathOrNull(existing.relativePath),
         playState |-> IF serializedMetadata.kind = "object"
                          /\ serializedMetadata.ls # NULL
                       THEN serializedMetadata.ls
                       ELSE OrNull(existing.playState),
         skipReason |-> OrNull(p.skipReason),
         lastProcessedAt |-> nowIso]

\* comparable projection the payload asks for
NextComparable(existing, p, nowIso) ==
    LET serializedMetadata ==
            IF p.metadata.kind # "null" THEN CloneMetadata(p.metadata)
            ELSE MetaOrNull(existing.metadata)
    IN  [metadata |-> serializedMetadata,
         relativePath |-> IF p.relativePath # NullPath THEN p.relativePath
                          ELSE PathOrNull(existing.relativePath),
         playState |-> IF serializedMetadata.kind = "object"
                          /\ serializedMetadata.ls # NULL
                       THEN serializedMetadata.ls
                       ELSE OrNull(existing.playState),
         skipReason |-> OrNull(p.skipReason),
         lastProcessedAt |-> IF p.processed THEN nowIso
                             ELSE existing.lastProcessedAt]

\* UpsertManifestEntry that stamps lastUpdatedAt before it compares
UpsertManifestEntry_StampsBeforeCompare(ents, p, nowIso) ==
    IF p.identifier = "" THEN [entries |-> ents, changed |-> FALSE]
    ELSE
    LET existing == ents[p.identifier]
        next == NextComparable(existing, p, nowIso)
        prev == PrevComparable(existing)
    IN  IF prev = next
        THEN [entries |->
                IF existing.present
                THEN [ents EXCEPT ![p.identifier].lastUpdatedAt = nowIso]
                ELSE ents,
              changed |-> FALSE]
        ELSE [entries |->
                [ents EXCEPT ![p.identifier] =
                    [present |-> TRUE, identifier |-> p.identifier,
                     metadata |-> next.metadata,
                     relativePath |-> next.relativePath,
                     playState |-> next.playState,
                     skipReason |-> next.skipReason,
                     lastProcessedAt |-> next.lastProcessedAt,
                     lastUpdatedAt |-> nowIso]],
              changed |-> TRUE]

\* upsertManifestEntry(manifest, payload) at time nowIso: the new entries and
\* the returned flag
UpsertManifestEntry(ents, p, nowIso) ==
    IF p.identifier = "" THEN [entries |-> ents, changed |-> FALSE]
    ELSE
    LET existing == ents[p.identifier]
        next == NextComparable(existing, p, nowIso)
        prev == PrevComparable(existing)
    IN  IF prev = next THEN [entries |-> ents, changed |-> FALSE]
        ELSE [entries |->
                [ents EXCEPT ![p.identifier] =
                    [present |-> TRUE, identifier |-> p.identifier,
                     metadata |-> next.metadata,
                     relativePath |-> next.relativePath,
                     playState |-> next.playState,
                     skipReason |-> next.skipReason,
                     lastProcessedAt |-> next.lastProcessedAt,
                     lastUpdatedAt |-> nowIso]],
              changed |-> TRUE]

\* UpdateManifestRelativePath that writes the target base name into the
\* entry's identifier instead of metadata.baseFileName
UpdateManifestRelativePath_RenamesIdentifier(ents, oldRelativePath, newRelativePath, targetBaseName, nowIso) ==
    IF PathOrNull(oldRelativePath) = NullPath
       \/ PathOrNull(newRelativePath) = NullPath
    THEN [entries |-> ents, changed |-> FALSE]
    ELSE
    LET hit(i) == ents[i].present /\ ents[i].relativePath = oldRelativePath
        rewritten(e) ==
            [e EXCEPT !.relativePath = newRelativePath,
                      !.identifier =
                          IF targetBaseName # "" THEN targetBaseName
                          ELSE e.identifier,
                      !.lastUpdatedAt = nowIso]
    IN  [entries |-> [i \in Ids |-> IF hit(i) THEN rewritten(ents[i])
                                    ELSE ents[i]],
         changed |-> \E i \in Ids : hit(i)]

\* updateManifestRelativePath(manifest, old, new, targetBaseName) at nowIso
UpdateManifestRelativePath(ents, oldRelativePath, newRelativePath, targetBaseName, nowIso) ==
    IF PathOrNull(oldRelativePath) = NullPath
       \/ PathOrNull(newRelativePath) = NullPath
    THEN [entries |-> ents, changed |-> FALSE]
    ELSE
    LET hit(i) == ents[i].present /\ ents[i].relativePath = oldRelativePath
        rewritten(e) ==
            [e EXCEPT !.relativePath = newRelativePath,
                      !.metadata =
                          IF e.metadata.kind = "object" /\ targetBaseName # ""
                          THEN [e.metadata EXCEPT
                                    !.baseFileName = targetBaseName]
                          ELSE e.metadata,
                      !.lastUpdatedAt = nowIso]
    IN  [entries |-> [i \in Ids |-> IF hit(i) THEN rewritten(ents[i])
                                    ELSE ents[i]],
         changed |-> \E i \in Ids : hit(i)]

\* a metadata map slot: absent, or a metadata value; shared tells whether
\* the value is the very object held by the manifest entry of the same
\* identifier (a write through one is then seen through the other)
NoSlot == [present |-> FALSE, meta |-> NoMeta, shared |-> FALSE]
Slot(m, sh) == [present |-> TRUE, meta |-> m, shared |-> sh]
EmptyMap == [i \in Ids |-> NoSlot]

\* MergeManifestMetadataIntoMap that hands out the manifest's own object
MergeManifestMetadataIntoMap_SharesObject(ents, map) ==
    [i \in Ids |->
        IF ents[i].present /\ ents[i].metadata.kind # "null"
           /\ ~map[i].present
        THEN Slot(ents[i].metadata, TRUE)
        ELSE map[i]]

\* mergeManifestMetadataIntoMap(manifest, metadataMap)
MergeManifestMetadataIntoMap(ents, map) ==
    [i \in Ids |->
        IF ents[i].present /\ ents[i].metadata.kind # "null"
           /\ ~map[i].present
        THEN Slot(CloneMetadata(ents[i].metadata), FALSE)
        ELSE map[i]]

\* ------------------------------------------------------- persisted store
\* what the manifest path holds: no file, a file that cannot be read, blank
\* text, text that is not JSON, JSON that is not an object, an object whose
\* entries field is missing or not an object, or a manifest object
FileKinds == {"missing", "unreadable", "blank", "unparseable", "nonObject",
              "badEntries", "valid"}
StoreFile(k, ents) == [kind |-> k, entries |-> ents]

\* LoadListeningStatusManifest with the read and the parse outside the try
LoadListeningStatusManifest_NoCatch(f) ==
    CASE f.kind = "missing" ->
            [entries |-> EmptyEntries, warned |-> FALSE, threw |-> FALSE]
      [] f.kind \in {"unreadable", "unparseable"} ->
            [entries |-> EmptyEntries, warned |-> FALSE, threw |-> TRUE]
      [] f.kind \in {"blank", "nonObject", "badEntries"} ->
            [entries |-> EmptyEntries, warned |-> FALSE, threw |-> FALSE]
      [] OTHER ->
            [entries |-> f.entries, warned |-> FALSE, threw |-> FALSE]

\* loadListeningStatusManifest(baseDirectory)
LoadListeningStatusManifest(f) ==
    CASE f.kind = "missing" ->
            [entries |-> EmptyEntries, warned |-> FALSE, threw |-> FALSE]
      [] f.kind \in {"unreadable", "unparseable"} ->
            [entries |-> EmptyEntries, warned |-> TRUE, threw |-> FALSE]
      [] f.kind \in {"blank", "nonObject", "badEntries"} ->
            [entries |-> EmptyEntries, warned |-> FALSE, threw |-> FALSE]
      [] OTHER ->
            [entries |-> f.entries, warned |-> FALSE, threw |-> FALSE]

\* saveListeningStatusManifest(baseDirectory, manifest); ioOk is whether
\* mkdirSync/writeFileSync succeed.  A failed write leaves the file as it was.
SaveListeningStatusManifest(f, ents, ioOk) ==
    IF ioOk THEN [file |-> StoreFile("valid", ents), threw |-> FALSE]
    ELSE [file |-> f, threw |-> TRUE]

\* -------------------------------------------------- interactive selector
\* The ink selector (InteractiveSelectorView).  An index is 0-based as in
\* the code; the entry at index i is selEntries[i + 1].  An entry is its
\* hasMarkdown flag (hasMarkdown implies a non-empty absolutePath).  A
\* missing terminal height is 0, which the code treats like null.
Entry(h) == [hasMarkdown |-> h]

EntryLists ==
    UNION {[1..n -> {Entry(TRUE), Entry(FALSE)}] : n \in 0..MaxEntries}

Rows == {0, 10, 13, 40}
Digits == {0, 1, 2}

NoResult == [kind |-> "none", indices |-> {}]
NullResult == [kind |-> "null", indices |-> {}]

Max2(a, b) == IF a > b THEN a ELSE b
Min2(a, b) == IF a < b THEN a ELSE b

\* computeResolvedPageSize()
ReservedLines == 7
LinesPerEntry == 3
ComputeResolvedPageSize(rows, pageSizeLimit) ==
    IF rows = 0 THEN pageSizeLimit
    ELSE LET available == rows - ReservedLines
             capacity == available \div LinesPerEntry
         IN  IF available <= 0 THEN 1
             ELSE IF capacity < 1 THEN 1
             ELSE Max2(1, Min2(pageSizeLimit, capacity))

\* Number.parseInt(commandBuffer, 10) of a string of digits
RECURSIVE ParseInt(_)
ParseInt(buffer) ==
    IF buffer = <<>> THEN 0
    ELSE 10 * ParseInt(SubSeq(buffer, 1, Len(buffer) - 1))
         + buffer[Len(buffer)]

\* the effect that keeps the cursor inside the list after a render
ClampCursor(c, length) ==
    IF length = 0 THEN 0
    ELSE IF c >= length THEN length - 1 ELSE c

\* getSelectedIndices(): the selected indices in ascending order
GetSelectedIndices(set) ==
    CHOOSE s \in [1..Cardinality(set) -> set] :
        \A i, j \in 1..Cardinality(set) : i < j => s[i] < s[j]

\* moveCursorToSelected(direction): the cursor it sets
MoveCursorToSelected(set, c, direction) ==
    LET selected == GetSelectedIndices(set)
        n == Len(selected)
        at == {k \in 1..n : selected[k] = c}
        idx == IF at = {} THEN (IF direction > 0 THEN 0 ELSE n - 1)
               ELSE ((CHOOSE k \in at : TRUE) - 1 + direction + n) % n
    IN  IF n = 0 THEN c
        ELSE IF n = 1 THEN selected[1]
        ELSE selected[idx + 1]

\* handleMoveCursor(delta): the cursor and the status message it sets
HandleMoveCursor_NoLowerBound(c, length, delta) ==
    IF length = 0 THEN [cursor |-> c, status |-> "noItems"]
    ELSE IF c + delta >= length
         THEN [cursor |-> length - 1, status |-> "lastItem"]
    ELSE [cursor |-> c + delta, status |-> NULL]

HandleMoveCursor(c, length, delta) ==
    IF length = 0 THEN [cursor |-> c, status |-> "noItems"]
    ELSE IF c + delta < 0 THEN [cursor |-> 0, status |-> "firstItem"]
    ELSE IF c + delta >= length
         THEN [cursor |-> length - 1, status |-> "lastItem"]
    ELSE [cursor |-> c + delta, status |-> NULL]

\* Math.ceil(a / b) for positive b
CeilDiv(a, b) == (a + b - 1) \div b

\* handleMovePage(delta): the cursor and the status message it sets
HandleMovePage(c, length, pageSize, delta) ==
    LET safePageSize == Max2(pageSize, 1)
        current == (c \div safePageSize) + 1
        maxPages == Max2(CeilDiv(length, safePageSize), 1)
        nextPage == Max2(1, Min2(maxPages, current + delta))
    IN  IF length = 0 THEN [cursor |-> 0, status |-> "noItems"]
        ELSE IF nextPage = current
             THEN [cursor |-> c,
                   status |-> IF delta > 0 THEN "lastPage" ELSE "firstPage"]
        ELSE [cursor |-> Min2(length - 1, (nextPage - 1) * safePageSize),
              status |-> NULL]

\* handleSelectIndex(index): a status message, or the entry to resolve
HandleSelectIndex(ents, index) ==
    IF index < 0 \/ index >= Len(ents)
    THEN [resolve |-> FALSE, status |-> "outOfRange", result |-> NoResult]
    ELSE IF ~ents[index + 1].hasMarkdown
    THEN [resolve |-> FALSE, status |-> "notFound", result |-> NoResult]
    ELSE [resolve |-> TRUE, status |-> NULL,
          result |-> [kind |-> "entry", indices |-> {index}]]

\* the return key taking the number typed as a list index
HandleReturn_ZeroBasedJump(ents, c, set, buffer) ==
    LET selectedEntries == {i \in set : i < Len(ents)}
    IN  IF buffer # <<>> THEN HandleSelectIndex(ents, ParseInt(buffer))
        ELSE IF set = {} THEN HandleSelectIndex(ents, c)
        ELSE IF selectedEntries = {}
        THEN [resolve |-> FALSE, status |-> "noValidSelected",
              result |-> NoResult]
        ELSE [resolve |-> TRUE, status |-> NULL,
              result |-> [kind |-> "entries", indices |-> selectedEntries]]

\* the return key taking the number displayed at the cursor as a list index
HandleReturn_DisplayIndexCursor(ents, c, set, buffer) ==
    LET selectedEntries == {i \in set : i < Len(ents)}
    IN  IF buffer # <<>> THEN HandleSelectIndex(ents, ParseInt(buffer) - 1)
        ELSE IF set = {} THEN HandleSelectIndex(ents, c + 1)
        ELSE IF selectedEntries = {}
        THEN [resolve |-> FALSE, status |-> "noValidSelected",
              result |-> NoResult]
        ELSE [resolve |-> TRUE, status |-> NULL,
              result |-> [kind |-> "entries", indices |-> selectedEntries]]

\* the return key: the jump buffer first, then the cursor when nothing is
\* selected, else the selected entries
HandleReturn(ents, c, set, buffer) ==
    LET selectedEntries == {i \in set : i < Len(ents)}
    IN  IF buffer # <<>> THEN HandleSelectIndex(ents, ParseInt(buffer) - 1)
        ELSE IF set = {} THEN HandleSelectIndex(ents, c)
        ELSE IF selectedEntries = {}
        THEN [resolve |-> FALSE, status |-> "noValidSelected",
              result |-> NoResult]
        ELSE [resolve |-> TRUE, status |-> NULL,
              result |-> [kind |-> "entries", indices |-> selectedEntries]]

\* ------------------------------------------------ catalog: pure functions
\* A JavaScript value handed to parsePositiveInteger: undefined, null, an
\* integer number, or a string (a sequence of characters).
JsUndefined == [t |-> "undefined", n |-> 0, s |-> <<>>]
JsNull == [t |-> "null", n |-> 0, s |-> <<>>]
Num(n) == [t |-> "number", n |-> n, s |-> <<>>]
Str(s) == [t |-> "string", n |-> 0, s |-> s]

DigitChars == <<"0", "1", "2", "3", "4", "5", "6", "7", "8", "9">>
IsDigitChar(c) == \E i \in 1..10 : DigitChars[i] = c
DigitValue(c) == (CHOOSE i \in 1..10 : DigitChars[i] = c) - 1

\* String(n) of a non-negative integer
RECURSIVE DecimalDigits(_)
DecimalDigits(n) ==
    IF n < 10 THEN <<DigitChars[n + 1]>>
    ELSE Append(DecimalDigits(n \div 10), DigitChars[(n % 10) + 1])

\* String(value) of a number or a string
StringOf(value) ==
    IF value.t = "string" THEN value.s
    ELSE IF value.n < 0 THEN <<"-">> \o DecimalDigits(0 - value.n)
    ELSE DecimalDigits(value.n)

\* the longest prefix of digits
RECURSIVE LeadingDigits(_)
LeadingDigits(s) ==
    IF s = <<>> \/ ~IsDigitChar(Head(s)) THEN <<>>
    ELSE <<Head(s)>> \o LeadingDigits(Tail(s))

RECURSIVE DigitsValue(_)
DigitsValue(s) ==
    IF s = <<>> THEN 0
    ELSE 10 * DigitsValue(SubSeq(s, 1, Len(s) - 1)) + DigitValue(s[Len(s)])

RECURSIVE SkipSpaces(_)
SkipSpaces(s) ==
    IF s # <<>> /\ Head(s) = " " THEN SkipSpaces(Tail(s)) ELSE s

\* Number.parseInt(string, 10): leading blanks, a sign, then digits
NaN == [nan |-> TRUE, v |-> 0]
ParseIntString(s) ==
    LET t == SkipSpaces(s)
        negative == t # <<>> /\ Head(t) = "-"
        signed == t # <<>> /\ Head(t) \in {"-", "+"}
        body == LeadingDigits(IF signed THEN Tail(t) ELSE t)
    IN  IF body = <<>> THEN NaN
        ELSE [nan |-> FALSE,
              v |-> IF negative THEN 0 - DigitsValue(body)
                    ELSE DigitsValue(body)]

\* parsePositiveInteger(value); the null it returns is 0 here, which every
\* caller treats alike (`|| fallback`)
ParsePositiveInteger(value) ==
    IF value.t \in {"undefined", "null"} THEN 0
    ELSE LET parsed == ParseIntString(StringOf(value))
         IN  IF parsed.nan \/ parsed.v <= 0 THEN 0 ELSE parsed.v

DEFAULT_LIST_LIMIT == 20
DEFAULT_SELECT_PAGE_SIZE == 20

\* x || fallback for a number x
OrElse(x, fallback) == IF x = 0 THEN fallback ELSE x

\* a catalog entry as the filter and the pagination see it
CatalogEntry(i, playState) == [id |-> i, playState |-> playState]

\* paginateEntries(entries, page, limit) with Math.floor in place of
\* Math.ceil
PaginateEntries_FloorsPageCount(ents, page, limit) ==
    LET safeLimit == Max2(OrElse(ParsePositiveInteger(limit),
                                 DEFAULT_LIST_LIMIT), 1)
        total == Len(ents)
        totalPages == Max2(total \div safeLimit, 1)
        desiredPage == OrElse(ParsePositiveInteger(page), 1)
        clampedPage == Min2(Max2(desiredPage, 1), totalPages)
        startIndex == (clampedPage - 1) * safeLimit
        endIndex == Min2(startIndex + safeLimit, total)
    IN  IF total = 0
        THEN [items |-> <<>>, total |-> 0, limit |-> safeLimit, page |-> 0,
              totalPages |-> 0]
        ELSE [items |-> SubSeq(ents, startIndex + 1, endIndex),
              total |-> total, limit |-> safeLimit, page |-> clampedPage,
              totalPages |-> totalPages]

\* paginateEntries(entries, page, limit) without the upper clamp of the page
PaginateEntries_NoUpperClamp(ents, page, limit) ==
    LET safeLimit == Max2(OrElse(ParsePositiveInteger(limit),
                                 DEFAULT_LIST_LIMIT), 1)
        total == Len(ents)
        totalPages == Max2(CeilDiv(total, safeLimit), 1)
        desiredPage == OrElse(ParsePositiveInteger(page), 1)
        clampedPage == Max2(desiredPage, 1)
        startIndex == (clampedPage - 1) * safeLimit
        endIndex == Min2(startIndex + safeLimit, total)
    IN  IF total = 0
        THEN [items |-> <<>>, total |-> 0, limit |-> safeLimit, page |-> 0,
              totalPages |-> 0]
        ELSE [items |-> SubSeq(ents, startIndex + 1, endIndex),
              total |-> total, limit |-> safeLimit, page |-> clampedPage,
              totalPages |-> totalPages]

\* paginateEntries(entries, page, limit)
PaginateEntries(ents, page, limit) ==
    LET safeLimit == Max2(OrElse(ParsePositiveInteger(limit),
                                 DEFAULT_LIST_LIMIT), 1)
        total == Len(ents)
        totalPages == Max2(CeilDiv(total, safeLimit), 1)
        desiredPage == OrElse(ParsePositiveInteger(page), 1)
        clampedPage == Min2(Max2(desiredPage, 1), totalPages)
        startIndex == (clampedPage - 1) * safeLimit
        endIndex == Min2(startIndex + safeLimit, total)
    IN  IF total = 0
        THEN [items |-> <<>>, total |-> 0, limit |-> safeLimit, page |-> 0,
              totalPages |-> 0]
        ELSE [items |-> SubSeq(ents, startIndex + 1, endIndex),
              total |-> total, limit |-> safeLimit, page |-> clampedPage,
              totalPages |-> totalPages]

\* the play states an entry can carry: not a string (NULL), empty, the
\* spellings normalizePlayState knows, and one it does not know
PlayStates ==
    {NULL, "", "played", "PLAYED", "inProgress", "inprogress", "in-progress",
     "in_progress", "unplayed", "notplayed", "not-played", "NotPlayed",
     "paused"}

\* String.prototype.toLowerCase on the play states above
ToLowerCase(s) ==
    CASE s = "PLAYED" -> "played"
      [] s = "inProgress" -> "inprogress"
      [] s = "NotPlayed" -> "notplayed"
      [] OTHER -> s

\* normalizePlayState(playState)
NormalizePlayState(playState) ==
    LET normalized == ToLowerCase(playState)
    IN  IF playState \in {NULL, ""} THEN NULL
        ELSE IF normalized = "played" THEN "played"
        ELSE IF normalized \in {"inprogress", "in-progress", "in_progress"}
        THEN "inProgress"
        ELSE IF normalized \in {"unplayed", "notplayed", "not-played"}
        THEN "unplayed"
        ELSE playState

\* the status argument of the filter: undefined, null, "", and strings
Statuses ==
    {UNDEF, NULL, "", "all", "unplayed", "played", "inProgress", "archived"}

\* the test of the filter's callback for one entry
MatchesStatus_UnplayedOnly(entry, status) ==
    LET st == NormalizePlayState(entry.playState)
    IN  IF status = "unplayed" THEN st = "unplayed"
        ELSE IF status = "played" THEN st = "played"
        ELSE IF status = "inProgress" THEN st = "inProgress"
        ELSE FALSE

MatchesStatus_PlayedKeepsInProgress(entry, status) ==
    LET st == NormalizePlayState(entry.playState)
    IN  IF status = "unplayed" THEN st \in {"unplayed", "inProgress"}
        ELSE IF status = "played" THEN st \in {"played", "inProgress"}
        ELSE IF status = "inProgress" THEN st = "inProgress"
        ELSE FALSE

MatchesStatus(entry, status) ==
    LET st == NormalizePlayState(entry.playState)
    IN  IF status = "unplayed" THEN st \in {"unplayed", "inProgress"}
        ELSE IF status = "played" THEN st = "played"
        ELSE IF status = "inProgress" THEN st = "inProgress"
        ELSE FALSE

\* filterEntriesByStatus(entries, status)
FilterEntriesByStatus(list, status) ==
    LET Keep(entry) == MatchesStatus(entry, status)
    IN  IF status \in {UNDEF, NULL, "", "all"} THEN list
        ELSE SelectSeq(list, Keep)

\* ------------------------------------------------- catalog: ordering
\* the value of a local const: the element of a one-element set
The(S) == CHOOSE x \in S : TRUE

\* strings compared by localeCompare are sequences of digits and of the
\* letters a, A, b, B. The primary collation weight of a character: digits
\* before letters, a letter and its capital the same
PrimaryWeight(c) ==
    IF IsDigitChar(c) THEN DigitValue(c)
    ELSE IF c \in {"a", "A"} THEN 10
    ELSE 11

IsUpperCase(c) == c \in {"A", "B"}

Sign(n) == IF n < 0 THEN -1 ELSE IF n > 0 THEN 1 ELSE 0

\* the strings compared by primary weight, left to right; a proper prefix
\* sorts first
RECURSIVE ComparePrimary(_, _)
ComparePrimary(s, t) ==
    IF s = <<>> THEN (IF t = <<>> THEN 0 ELSE -1)
    ELSE IF t = <<>> THEN 1
    ELSE IF PrimaryWeight(Head(s)) # PrimaryWeight(Head(t))
    THEN Sign(PrimaryWeight(Head(s)) - PrimaryWeight(Head(t)))
    ELSE ComparePrimary(Tail(s), Tail(t))

\* strings of equal primary weights compared by case, lower case first
RECURSIVE CompareCase(_, _)
CompareCase(s, t) ==
    IF s = <<>> \/ t = <<>> THEN 0
    ELSE IF IsUpperCase(Head(s)) # IsUpperCase(Head(t))
    THEN (IF IsUpperCase(Head(t)) THEN -1 ELSE 1)
    ELSE CompareCase(Tail(s), Tail(t))

\* s.localeCompare(t, undefined, { sensitivity: "base" })
LocaleCompareBase(s, t) == ComparePrimary(s, t)

\* s.localeCompare(t)
LocaleCompare(s, t) ==
    IF ComparePrimary(s, t) # 0 THEN ComparePrimary(s, t)
    ELSE CompareCase(s, t)

\* value || ""
OrEmpty(value) == IF value = NULL THEN <<>> ELSE value

\* an entry as the comparator reads it
SortEntry(ts, show, episode, id, playState) ==
    [sortTimestamp |-> ts, showTitle |-> show, episodeTitle |-> episode,
     identifier |-> id, playState |-> playState]

CompareCatalogEntriesDesc_NoIdentifier(a, b) ==
    IF a.sortTimestamp # b.sortTimestamp
    THEN b.sortTimestamp - a.sortTimestamp
    ELSE IF LocaleCompareBase(OrEmpty(a.showTitle), OrEmpty(b.showTitle)) # 0
    THEN LocaleCompareBase(OrEmpty(a.showTitle), OrEmpty(b.showTitle))
    ELSE LocaleCompareBase(OrEmpty(a.episodeTitle), OrEmpty(b.episodeTitle))

\* compareCatalogEntriesDesc(a, b)
CompareCatalogEntriesDesc(a, b) ==
    IF a.sortTimestamp # b.sortTimestamp
    THEN b.sortTimestamp - a.sortTimestamp
    ELSE IF LocaleCompareBase(OrEmpty(a.showTitle), OrEmpty(b.showTitle)) # 0
    THEN LocaleCompareBase(OrEmpty(a.showTitle), OrEmpty(b.showTitle))
    ELSE IF LocaleCompareBase(OrEmpty(a.episodeTitle),
                              OrEmpty(b.episodeTitle)) # 0
    THEN LocaleCompareBase(OrEmpty(a.episodeTitle), OrEmpty(b.episodeTitle))
    ELSE LocaleCompare(OrEmpty(a.identifier), OrEmpty(b.identifier))

\* one step of the stable sort: e goes behind the last element that does
\* not sort after it
InsertSorted(sorted, e) ==
    LET before == {i \in 1..Len(sorted) :
                       CompareCatalogEntriesDesc(sorted[i], e) <= 0}
        k == IF before = {} THEN 0
             ELSE CHOOSE i \in before : \A j \in before : j <= i
    IN  SubSeq(sorted, 1, k) \o <<e>> \o SubSeq(sorted, k + 1, Len(sorted))

\* catalogEntries.slice().sort(compareCatalogEntriesDesc)
RECURSIVE SortEntries(_)
SortEntries(list) ==
    IF list = <<>> THEN <<>>
    ELSE The({InsertSorted(sorted, list[Len(list)]) :
                 sorted \in {SortEntries(SubSeq(list, 1, Len(list) - 1))}})

\* buildEntryFilterConfig(options).status: options.status || "all"
BuildEntryFilterStatus(status) ==
    IF status \in {UNDEF, NULL, ""} THEN "all" ELSE status

\* filterCatalogEntries(entries, filterConfig) when no show and no station
\* filter is given
FilterCatalogEntries(list, status) ==
    FilterEntriesByStatus(list, BuildEntryFilterStatus(status))

\* what runListCommand prints when there is nothing to list
NoListing == [items |-> <<>>, total |-> 0, limit |-> 0, page |-> 0,
              totalPages |-> 0]

RunListCommand_PaginatesBeforeFilter(catalogEntries, page, limit, status) ==
    IF catalogEntries = <<>> THEN NoListing
    ELSE The({[pagination EXCEPT !.items =
                   FilterCatalogEntries(pagination.items, status)] :
                 pagination \in {PaginateEntries(SortEntries(catalogEntries),
                                                 page, limit)}})

\* runListCommand(options): sort, filter, paginate
RunListCommand(catalogEntries, page, limit, status) ==
    IF catalogEntries = <<>> THEN NoListing
    ELSE The({IF filteredEntries = <<>> THEN NoListing
              ELSE PaginateEntries(filteredEntries, page, limit) :
                 filteredEntries \in
                     {FilterCatalogEntries(SortEntries(catalogEntries),
                                           status)}})

\* ------------------------------------------------ catalog: fuzzy match
\* strings are sequences of characters; "e-acute" stands for the one
\* character U+00E9
UpperChars ==
    <<"A", "B", "C", "D", "E", "F", "G", "H", "I", "J", "K", "L", "M", "N",
      "O", "P", "Q", "R", "S", "T", "U", "V", "W", "X", "Y", "Z">>
LowerChars ==
    <<"a", "b", "c", "d", "e", "f", "g", "h", "i", "j", "k", "l", "m", "n",
      "o", "p", "q", "r", "s", "t", "u", "v", "w", "x", "y", "z">>

\* one character through normalize("NFKD"), the removal of combining
\* marks, toLowerCase(), and the replacement of what is not a-z or 0-9
FoldChar(c) ==
    IF c = "e-acute" THEN "e"
    ELSE IF \E i \in 1..26 : UpperChars[i] = c
    THEN LowerChars[CHOOSE i \in 1..26 : UpperChars[i] = c]
    ELSE IF (\E i \in 1..26 : LowerChars[i] = c) \/ IsDigitChar(c) THEN c
    ELSE " "

\* runs of blanks become one blank, leading blanks go
RECURSIVE SqueezeBlanks(_, _)
SqueezeBlanks(s, afterBlank) ==
    IF s = <<>> THEN <<>>
    ELSE IF Head(s) = " "
    THEN (IF afterBlank THEN SqueezeBlanks(Tail(s), TRUE)
          ELSE <<" ">> \o SqueezeBlanks(Tail(s), TRUE))
    ELSE <<Head(s)>> \o SqueezeBlanks(Tail(s), FALSE)

TrimEnd(s) ==
    IF s # <<>> /\ s[Len(s)] = " " THEN SubSeq(s, 1, Len(s) - 1) ELSE s

\* normalizeMatchValue(value)
NormalizeMatchValue(value) ==
    IF value.t \in {"undefined", "null"} THEN <<>>
    ELSE TrimEnd(SqueezeBlanks([i \in 1..Len(StringOf(value)) |->
                                   FoldChar(StringOf(value)[i])], TRUE))

\* normalized.split(/\s+/).filter(Boolean)
RECURSIVE SplitTokens(_, _)
SplitTokens(s, token) ==
    IF s = <<>> THEN (IF token = <<>> THEN <<>> ELSE <<token>>)
    ELSE IF Head(s) = " "
    THEN (IF token = <<>> THEN SplitTokens(Tail(s), <<>>)
          ELSE <<token>> \o SplitTokens(Tail(s), <<>>))
    ELSE SplitTokens(Tail(s), Append(token, Head(s)))

\* String.prototype.includes
Includes(s, part) ==
    \E i \in 0..(Len(s) - Len(part)) : SubSeq(s, i + 1, i + Len(part)) = part

\* the null buildMatchCandidate returns for a value that normalizes to
\* nothing
NoCandidate ==
    [normalized |-> <<>>, collapsed |-> <<>>, tokens |-> <<>>,
     initials |-> <<>>]

\* buildMatchCandidate(value)
BuildMatchCandidate(value) ==
    LET normalized == NormalizeMatchValue(value)
        tokens == SplitTokens(normalized, <<>>)
    IN  IF normalized = <<>> THEN NoCandidate
        ELSE [normalized |-> normalized,
              collapsed |-> SelectSeq(normalized, LAMBDA c : c # " "),
              tokens |-> tokens,
              initials |-> [i \in 1..Len(tokens) |-> tokens[i][1]]]

\* what createFuzzyMatcher(query) gives and what its matcher says of value
NoMatcher == [matcher |-> FALSE, matched |-> FALSE]
Matched(b) == [matcher |-> TRUE, matched |-> b]

MatcherTest_NoInitials(candidate, target) ==
    IF target = NoCandidate THEN FALSE
    ELSE \/ candidate.normalized # <<>>
            /\ Includes(target.normalized, candidate.normalized)
         \/ candidate.collapsed # <<>>
            /\ Includes(target.collapsed, candidate.collapsed)
         \/ Len(candidate.tokens) > 0
            /\ \A i \in 1..Len(candidate.tokens) :
                   Includes(target.normalized, candidate.tokens[i])

\* the function createFuzzyMatcher returns, applied to a built target
MatcherTest(candidate, target) ==
    IF target = NoCandidate THEN FALSE
    ELSE \/ candidate.normalized # <<>>
            /\ Includes(target.normalized, candidate.normalized)
         \/ candidate.collapsed # <<>>
            /\ Includes(target.collapsed, candidate.collapsed)
         \/ Len(candidate.tokens) > 0
            /\ \A i \in 1..Len(candidate.tokens) :
                   Includes(target.normalized, candidate.tokens[i])
         \/ candidate.initials # <<>>
            /\ Includes(target.initials, candidate.initials)

\* createFuzzyMatcher(query)(value)
FuzzyMatch(query, value) ==
    LET candidate == BuildMatchCandidate(query)
    IN  IF candidate = NoCandidate THEN NoMatcher
        ELSE Matched(MatcherTest(candidate, BuildMatchCandidate(value)))

\* ------------------------------------------------ catalog: entry titles
\* value is truthy: a string that is not empty
Truthy(value) == value.t = "string" /\ value.s # <<>>

\* the first truthy value of a || chain, as a string
RECURSIVE FirstTruthy(_)
FirstTruthy(values) ==
    IF values = <<>> THEN <<>>
    ELSE IF Truthy(Head(values)) THEN Head(values).s
    ELSE FirstTruthy(Tail(values))

ToUpperChar(c) ==
    IF \E i \in 1..26 : LowerChars[i] = c
    THEN UpperChars[CHOOSE i \in 1..26 : LowerChars[i] = c]
    ELSE c

\* s.split(sep).filter(Boolean)
RECURSIVE SplitWords(_, _, _)
SplitWords(s, sep, word) ==
    IF s = <<>> THEN (IF word = <<>> THEN <<>> ELSE <<word>>)
    ELSE IF Head(s) = sep
    THEN (IF word = <<>> THEN SplitWords(Tail(s), sep, <<>>)
          ELSE <<word>> \o SplitWords(Tail(s), sep, <<>>))
    ELSE SplitWords(Tail(s), sep, Append(word, Head(s)))

\* words.join(" ")
RECURSIVE JoinWords(_)
JoinWords(words) ==
    IF words = <<>> THEN <<>>
    ELSE IF Len(words) = 1 THEN words[1]
    ELSE words[1] \o <<" ">> \o JoinWords(Tail(words))

\* formatSlugAsTitle(slug)
FormatSlugAsTitle(slug) ==
    LET words == SplitWords(slug, "-", <<>>)
    IN  JoinWords([i \in 1..Len(words) |->
                      <<ToUpperChar(words[i][1])>> \o Tail(words[i])])

\* s.split("_").slice(n).join("-"): what follows the n-th underscore, with
\* the later underscores turned into hyphens
RECURSIVE AfterUnderscores(_, _)
AfterUnderscores(s, n) ==
    IF n = 0 THEN [i \in 1..Len(s) |-> IF s[i] = "_" THEN "-" ELSE s[i]]
    ELSE IF s = <<>> THEN <<>>
    ELSE AfterUnderscores(Tail(s), IF Head(s) = "_" THEN n - 1 ELSE n)

\* relativePath.split(path.sep).join("/")
NormalizeSeparators(relativePath, sep) ==
    [i \in 1..Len(relativePath) |->
        IF relativePath[i] = sep THEN "/" ELSE relativePath[i]]

UnknownShowPlaceholder == <<"u", "n", "k", "n", "o", "w", "n", " ", "s", "h", "o", "w">>
UnknownShow == <<"U", "n", "k", "n", "o", "w", "n", " ", "s", "h", "o", "w">>
UnknownEpisode == <<"U", "n", "k", "n", "o", "w", "n", " ", "e", "p", "i", "s", "o", "d", "e">>

\* a manifest entry as buildCatalogEntry reads it for the two titles; a
\* missing field is JsUndefined
TitleSource(showTitle, showSlug, episodeTitle, baseFileName, relativePath, identifier) ==
    [showTitle |-> showTitle, showSlug |-> showSlug,
     episodeTitle |-> episodeTitle, baseFileName |-> baseFileName,
     relativePath |-> relativePath, identifier |-> identifier]

\* showTitle of buildCatalogEntry; the builder of extract-transcripts.js
\* has no final || "Unknown show"
ShowTitleOf(entry, builder) ==
    LET picked == IF Truthy(entry.showTitle)
                     /\ entry.showTitle.s # UnknownShowPlaceholder
                  THEN entry.showTitle.s
                  ELSE IF Truthy(entry.showSlug)
                  THEN FormatSlugAsTitle(entry.showSlug.s)
                  ELSE UnknownShow
    IN  IF builder = "catalog" /\ picked = <<>> THEN UnknownShow ELSE picked

\* fallbackEpisodeTitle of buildCatalogEntry
FallbackEpisodeTitle(entry) ==
    IF Truthy(entry.baseFileName)
    THEN Str(FormatSlugAsTitle(
                 IF AfterUnderscores(entry.baseFileName.s, 2) # <<>>
                 THEN AfterUnderscores(entry.baseFileName.s, 2)
                 ELSE entry.baseFileName.s))
    ELSE JsNull

\* normalizedRelativePath of buildCatalogEntry
NormalizedRelativePath(entry, sep) ==
    IF Truthy(entry.relativePath)
    THEN Str(NormalizeSeparators(entry.relativePath.s, sep))
    ELSE JsNull

EpisodeTitleOf_SkipsRelativePath(entry, sep) ==
    FirstTruthy(<<entry.episodeTitle, FallbackEpisodeTitle(entry),
                  entry.identifier, Str(UnknownEpisode)>>)

\* episodeTitle of buildCatalogEntry
EpisodeTitleOf(entry, sep) ==
    FirstTruthy(<<entry.episodeTitle, FallbackEpisodeTitle(entry),
                  NormalizedRelativePath(entry, sep), entry.identifier,
                  Str(UnknownEpisode)>>)

\* buildCatalogEntry(entry): the two titles
BuildCatalogEntry(entry, builder, sep) ==
    [showTitle |-> ShowTitleOf(entry, builder),
     episodeTitle |-> EpisodeTitleOf(entry, sep)]

\* ------------------------------------- synchronization pass: file names
\* The names of the documents, character by character.
IsLetterChar(c) ==
    \E i \in 1..26 : LowerChars[i] = c \/ UpperChars[i] = c

\* runs of blanks, underscores and hyphens become one hyphen
RECURSIVE HyphenateRuns(_, _)
HyphenateRuns(s, afterRun) ==
    IF s = <<>> THEN <<>>
    ELSE IF Head(s) \in {" ", "_", "-"}
    THEN (IF afterRun THEN HyphenateRuns(Tail(s), TRUE)
          ELSE <<"-">> \o HyphenateRuns(Tail(s), TRUE))
    ELSE <<Head(s)>> \o HyphenateRuns(Tail(s), FALSE)

\* String.prototype.trim for blanks
RECURSIVE TrimBlanks(_)
TrimBlanks(s) ==
    IF s # <<>> /\ Head(s) = " " THEN TrimBlanks(Tail(s))
    ELSE IF s # <<>> /\ s[Len(s)] = " "
    THEN TrimBlanks(SubSeq(s, 1, Len(s) - 1))
    ELSE s

\* String.prototype.toLowerCase, one character
ToLowerChar(c) ==
    IF \E i \in 1..26 : UpperChars[i] = c
    THEN LowerChars[CHOOSE i \in 1..26 : UpperChars[i] = c]
    ELSE c

\* slugify(value, fallback)
Slugify(value, fallback) ==
    LET plain == [i \in 1..Len(value) |->
                     IF value[i] = "e-acute" THEN "e" ELSE value[i]]
        kept == SelectSeq(plain, LAMBDA c : IsLetterChar(c) \/ IsDigitChar(c)
                                               \/ c \in {" ", "-"})
        hyphenated == HyphenateRuns(TrimBlanks(kept), FALSE)
        cleaned == [i \in 1..Len(hyphenated) |-> ToLowerChar(hyphenated[i])]
    IN  IF value = <<>> \/ cleaned = <<>> THEN fallback ELSE cleaned

\* slug.slice(0, maxLength).replace(/-+$/g, "")
RECURSIVE DropTrailingHyphens(_)
DropTrailingHyphens(s) ==
    IF s # <<>> /\ s[Len(s)] = "-"
    THEN DropTrailingHyphens(SubSeq(s, 1, Len(s) - 1))
    ELSE s

\* truncateSlug(slug, maxLength)
TruncateSlug(slug, maxLength) ==
    IF Len(slug) <= maxLength THEN slug
    ELSE IF DropTrailingHyphens(SubSeq(slug, 1, maxLength)) # <<>>
    THEN DropTrailingHyphens(SubSeq(slug, 1, maxLength))
    ELSE SubSeq(slug, 1, maxLength)

\* a TTML file of the cache with the metadata the pass found for it
SourceItem(showTitle, episodeTitle, pubDate, playState) ==
    [showTitle |-> showTitle, episodeTitle |-> episodeTitle,
     pubDate |-> pubDate, playState |-> playState]

\* slugify(metadata.showTitle, "unknown-show")
ShowSlugOf(item) == Slugify(item.showTitle, <<"u", "n", "k", "n", "o", "w", "n", "-", "s", "h", "o", "w">>)

\* truncateSlug(slugify(rawEpisodeTitle, "episode"), 20)
EpisodeSlugOf(item) ==
    TruncateSlug(Slugify(item.episodeTitle, <<"e", "p", "i", "s", "o", "d", "e">>), 20)

\* `${showSlug}_${dateSegment}_${episodeSlug}`
BaseNameString(item) ==
    ShowSlugOf(item) \o <<"_">> \o item.pubDate \o <<"_">>
        \o EpisodeSlugOf(item)

\* countKey of resolveOutputPath
CountKeyString(item) ==
    ShowSlugOf(item)
        \o (IF item.playState = "played" THEN <<"/", "p", "l", "a", "y", "e", "d">> ELSE <<>>)
        \o <<"/">> \o BaseNameString(item)

\* filenameCounts.get(countKey) || 0, the keys counted so far given in the
\* order they were counted
CountOf(usedKeys, key) ==
    Cardinality({k \in 1..Len(usedKeys) : usedKeys[k] = key})

\* resolveOutputPath({ filenameCounts, showSlug, dateSegment, episodeSlug,
\* listeningStatus }): the path below the transcripts directory
ResolveOutputPathString(usedKeys, item) ==
    ShowSlugOf(item)
        \o (IF item.playState = "played" THEN <<"/", "p", "l", "a", "y", "e", "d">> ELSE <<>>)
        \o <<"/">> \o BaseNameString(item)
        \o (IF CountOf(usedKeys, CountKeyString(item)) = 0 THEN <<>>
            ELSE <<"-">> \o DecimalDigits(CountOf(usedKeys,
                                                  CountKeyString(item))))
        \o <<".", "m", "d">>

\* the loop of handleBatch over the files: the output path of each
RECURSIVE ResolveOutputPaths(_, _)
ResolveOutputPaths(items, usedKeys) ==
    IF items = <<>> THEN <<>>
    ELSE <<ResolveOutputPathString(usedKeys, Head(items))>>
             \o ResolveOutputPaths(Tail(items),
                                   Append(usedKeys,
                                          CountKeyString(Head(items))))

\* ------------------------------------------- readline selector: operators
\* runInteractiveSelector of extract-transcripts.js.  Its closure state is
\* the record r: state (cursor, currentPage, commandBuffer, statusMessage),
\* resolvedPageSize, resolved, cursorHidden; with it travel what the calls
\* do to the outside: glyphHidden (the terminal), frame (the last render),
\* delivered (the calls of resolve).  env holds what the closure only
\* reads: entries, basePageSize and process.stdout.rows.
LinesPerEntryReadline == 2

\* computeResolvedPageSize() with getTerminalRows()
ReadlineComputeResolvedPageSize(rows, base) ==
    IF rows <= 0 THEN base
    ELSE LET available == rows - ReservedLines
             capacity == available \div LinesPerEntryReadline
         IN  IF available <= 0 THEN 1
             ELSE IF capacity < 1 THEN 1
             ELSE Max2(1, Min2(base, capacity))

\* clampCursor()
ReadlineClampCursor(c, length) ==
    IF length = 0 THEN 0
    ELSE IF c < 0 THEN 0
    ELSE IF c >= length THEN length - 1
    ELSE c

NoFrame ==
    [page |-> 0, pageCount |-> 0, startIndex |-> 0, count |-> 0,
     cursor |-> 0, pageSize |-> 0, drawn |-> FALSE]

\* basePageSize of the closure
BasePageSize(size) ==
    Max2(OrElse(ParsePositiveInteger(size), DEFAULT_SELECT_PAGE_SIZE), 1)

\* the closure right after its variables are declared
StartSelector(base) ==
    [state |-> [cursor |-> 0, currentPage |-> 1, commandBuffer |-> <<>>,
                statusMessage |-> NULL],
     resolvedPageSize |-> base, resolved |-> FALSE, cursorHidden |-> FALSE,
     glyphHidden |-> FALSE, frame |-> NoFrame, delivered |-> <<>>]

\* hideCursor()
HideCursor(r) ==
    IF ~r.cursorHidden
    THEN [r EXCEPT !.glyphHidden = TRUE, !.cursorHidden = TRUE]
    ELSE r

\* showCursor()
ShowCursor(r) ==
    IF r.cursorHidden
    THEN [r EXCEPT !.glyphHidden = FALSE, !.cursorHidden = FALSE]
    ELSE r

\* cleanup(result)
Cleanup(r, res) ==
    IF r.resolved THEN r
    ELSE [ShowCursor(r) EXCEPT !.resolved = TRUE,
                               !.delivered = Append(r.delivered, res)]

\* render(): the frame drawn from the page of paginateEntries
RenderFrame(r, env, c, size, page) ==
    The({[r EXCEPT !.state.cursor = c,
                   !.state.currentPage = page,
                   !.resolvedPageSize = size,
                   !.frame = [page |-> pagination.page,
                              pageCount |-> IF pagination.totalPages <= 0
                                            THEN 1
                                            ELSE pagination.totalPages,
                              startIndex |-> IF pagination.page > 0
                                             THEN (pagination.page - 1)
                                                  * pagination.limit
                                             ELSE 0,
                              count |-> Len(pagination.items),
                              cursor |-> c,
                              pageSize |-> size,
                              drawn |-> TRUE]] :
         pagination \in {PaginateEntries(env.entries, Num(page),
                                         Num(size))}})

\* render(): the page it settles on before it paginates
RenderPage(r, env, c, size, page0) ==
    LET totalPages == Max2(CeilDiv(Len(env.entries), size), 1)
        page1 == IF page0 < 1 THEN 1 ELSE page0
        page2 == IF page1 > totalPages THEN totalPages ELSE page1
        expectedPage == (c \div size) + 1
    IN  The({RenderFrame(r, env, c, size, page) :
             page \in {IF expectedPage # page2 THEN expectedPage
                       ELSE page2}})

\* render(): the cursor after clampCursor() and the next page size
RenderClamped(r, env, c, nextPageSize) ==
    The({RenderPage(r, env, c, nextPageSize, page0) :
         page0 \in {IF nextPageSize # r.resolvedPageSize
                    THEN (c \div nextPageSize) + 1
                    ELSE r.state.currentPage}})

\* render() that draws the stored currentPage without deriving it
Render_KeepsStoredPage(r0, env) ==
    The({RenderFrame(r, env, c, nextPageSize,
                     Max2(1, Min2(Max2(CeilDiv(Len(env.entries),
                                               nextPageSize), 1),
                                  r.state.currentPage))) :
         r \in {r0},
         c \in {ReadlineClampCursor(r0.state.cursor, Len(env.entries))},
         nextPageSize \in {ReadlineComputeResolvedPageSize(
                               env.rows, env.basePageSize)}})

\* render()
Render(r0, env) ==
    The({RenderClamped(r, env, c, nextPageSize) :
         r \in {r0},
         c \in {ReadlineClampCursor(r0.state.cursor, Len(env.entries))},
         nextPageSize \in {ReadlineComputeResolvedPageSize(
                               env.rows, env.basePageSize)}})

\* moveCursor(delta)
MoveCursor(r, env, delta) ==
    LET c == ReadlineClampCursor(r.state.cursor + delta, Len(env.entries))
    IN  [r EXCEPT !.state.cursor = c,
                  !.state.currentPage = (c \div r.resolvedPageSize) + 1]

\* movePage(delta) that turns the page and leaves the cursor where it is
MovePage_KeepsCursor(r, env, delta) ==
    LET totalPages ==
            Max2(CeilDiv(Len(env.entries), r.resolvedPageSize), 1)
        nextPage == Min2(Max2(r.state.currentPage + delta, 1), totalPages)
    IN  IF nextPage = r.state.currentPage
        THEN [r EXCEPT !.state.statusMessage =
                           IF delta > 0 THEN "lastPage" ELSE "firstPage"]
        ELSE [r EXCEPT !.state.currentPage = nextPage]

\* movePage(delta)
MovePage(r, env, delta) ==
    LET totalPages ==
            Max2(CeilDiv(Len(env.entries), r.resolvedPageSize), 1)
        nextPage == Min2(Max2(r.state.currentPage + delta, 1), totalPages)
    IN  IF nextPage = r.state.currentPage
        THEN [r EXCEPT !.state.statusMessage =
                           IF delta > 0 THEN "lastPage" ELSE "firstPage"]
        ELSE [r EXCEPT !.state.currentPage = nextPage,
                       !.state.cursor =
                           Min2((nextPage - 1) * r.resolvedPageSize,
                                Len(env.entries) - 1)]

\* selectIndex(index)
SelectIndex(r, env, index) ==
    IF index < 0 \/ index >= Len(env.entries)
    THEN [r EXCEPT !.state.statusMessage = "outOfRange"]
    ELSE IF ~env.entries[index + 1].hasMarkdown
    THEN [r EXCEPT !.state.statusMessage = "notFound"]
    ELSE Cleanup(r, [kind |-> "entry", indices |-> {index}])

\* the terminal heights tried: none, room for one entry, room for three
ReadlineRows == {0, 10, 13}

\* the keys the handler is called with; "x" is a key it has no branch for
DigitKeys == {"0", "2"}
Keys ==
    {"ctrl-c", "up", "down", "left", "right", "pageup", "pagedown", "return",
     "escape", "q", "n", "p", "backspace", "x"} \cup DigitKeys

RenderUnlessResolved(r, env) == IF r.resolved THEN r ELSE Render(r, env)

ClearBuffer(r) == [r EXCEPT !.state.commandBuffer = <<>>]

\* handleKeypress: the up and down keys
KeypressArrow(r, env, delta) ==
    LET atEdge == /\ Len(env.entries) > 0
                  /\ r.state.cursor = (IF delta < 0 THEN 0
                                       ELSE Len(env.entries) - 1)
        r1 == [r EXCEPT !.state.commandBuffer = <<>>,
                        !.state.statusMessage =
                            IF ~atEdge THEN r.state.statusMessage
                            ELSE IF delta < 0 THEN "firstItem"
                            ELSE "lastItem"]
    IN  Render(MoveCursor(r1, env, delta), env)

\* handleKeypress: the return key
KeypressReturn(r, env) ==
    IF r.state.commandBuffer # <<>>
    THEN RenderUnlessResolved(
             SelectIndex(ClearBuffer(r), env,
                         ParseInt(r.state.commandBuffer) - 1), env)
    ELSE RenderUnlessResolved(SelectIndex(r, env, r.state.cursor), env)

\* handleKeypress: the keys that come with a character
KeypressCharacter(r, env, key) ==
    IF key = "q" THEN Cleanup(r, NullResult)
    ELSE IF key = "n" THEN Render(MovePage(ClearBuffer(r), env, 1), env)
    ELSE IF key = "p" THEN Render(MovePage(ClearBuffer(r), env, -1), env)
    ELSE IF key = "backspace"
    THEN IF Len(r.state.commandBuffer) > 0
         THEN Render([r EXCEPT !.state.commandBuffer =
                                   SubSeq(r.state.commandBuffer, 1,
                                          Len(r.state.commandBuffer) - 1)],
                     env)
         ELSE r
    ELSE IF key \in DigitKeys
    THEN Render([r EXCEPT !.state.commandBuffer =
                              Append(r.state.commandBuffer, DigitValue(key))],
                env)
    ELSE r

\* handleKeypress where escape first empties a jump buffer being typed
KeypressDispatch_EscapeClearsBuffer(r, env, key) ==
    IF key = "ctrl-c" THEN Cleanup(r, NullResult)
    ELSE IF key = "up" THEN KeypressArrow(r, env, -1)
    ELSE IF key = "down" THEN KeypressArrow(r, env, 1)
    ELSE IF key \in {"left", "pageup"}
    THEN Render(MovePage(ClearBuffer(r), env, -1), env)
    ELSE IF key \in {"right", "pagedown"}
    THEN Render(MovePage(ClearBuffer(r), env, 1), env)
    ELSE IF key = "return" THEN KeypressReturn(r, env)
    ELSE IF key = "escape"
    THEN IF r.state.commandBuffer # <<>> THEN Render(ClearBuffer(r), env)
         ELSE Cleanup(r, NullResult)
    ELSE KeypressCharacter(r, env, key)

\* handleKeypress after its guard and the reset of the status message
KeypressDispatch(r, env, key) ==
    IF key = "ctrl-c" THEN Cleanup(r, NullResult)
    ELSE IF key = "up" THEN KeypressArrow(r, env, -1)
    ELSE IF key = "down" THEN KeypressArrow(r, env, 1)
    ELSE IF key \in {"left", "pageup"}
    THEN Render(MovePage(ClearBuffer(r), env, -1), env)
    ELSE IF key \in {"right", "pagedown"}
    THEN Render(MovePage(ClearBuffer(r), env, 1), env)
    ELSE IF key = "return" THEN KeypressReturn(r, env)
    ELSE IF key = "escape" THEN Cleanup(r, NullResult)
    ELSE KeypressCharacter(r, env, key)

\* handleKeypress(str, key) without the resolved guard
HandleKeypress_NoGuard(r, env, key) ==
    KeypressDispatch([r EXCEPT !.state.statusMessage = NULL], env, key)

\* handleKeypress(str, key)
HandleKeypress(r, env, key) ==
    IF r.resolved THEN r
    ELSE KeypressDispatch([r EXCEPT !.state.statusMessage = NULL], env, key)

\* handleResize()
HandleResize(r, env) == IF ~r.resolved THEN Render(r, env) ELSE r

\* ------------------------------------------------------------- variables
VARIABLES
    manifest,     \* entries of the in-memory manifest object
    clock,        \* what new Date() returns now
    op,           \* the store operation that ran last and what it returned
    created,      \* per key: the identifier its entry was first created with
    metadataMap,  \* the live metadata map handed to the merge
    file,         \* what the manifest path holds on disk
    cache,        \* identifiers of the TTML files in the cache
    live,         \* what the live source knows about each identifier
    disk,         \* the Markdown documents under the transcripts directory
    pass,         \* how the last synchronization pass went
    everRecorded, \* identifiers that were ever in the persisted manifest
    selEntries,   \* the entries the selector was opened with
    basePageSize, \* the page size the selector was opened with
    cursor,       \* index of the highlighted entry
    selectedSet,  \* indices toggled with the space key
    commandBuffer,\* digits typed so far
    statusMessage,\* the inline message of the selector
    terminalRows, \* terminal height known to the selector
    settled,      \* the promise of runInteractiveSelector is settled
    result,       \* what the promise was resolved with
    exited,       \* the ink application has exited
    mounted,      \* startApp() rendered the view; it takes key events
    entries,      \* readline selector: the entries it was called with
    pageSize,     \* readline selector: the pageSize it was called with
    state,        \* readline selector: cursor, currentPage, commandBuffer,
                  \* statusMessage
    resolvedPageSize, \* readline selector: page size of the last frame
    resolved,     \* readline selector: the resolved flag of the closure
    cursorHidden, \* readline selector: the cursorHidden flag of the closure
    stdoutRows,   \* process.stdout.rows
    glyphHidden,  \* the terminal does not draw its cursor glyph
    frame,        \* what the last call of render() drew
    delivered,    \* the values resolve() of the promise was called with
    alive,        \* the process is running
    request,      \* the catalog function called last and its arguments
    response      \* what that call returned

storeVars == <<manifest, clock, op, created, metadataMap, file>>
syncVars == <<cache, live, disk, pass, everRecorded>>
selVars == <<selEntries, basePageSize, cursor, selectedSet, commandBuffer,
             statusMessage, terminalRows, settled, result, exited,
             mounted>>
rawVars == <<entries, pageSize, state, resolvedPageSize, resolved,
             cursorHidden, stdoutRows, glyphHidden, frame, delivered, alive>>
catalogVars == <<request, response>>
vars == <<storeVars, syncVars, selVars, rawVars, catalogVars>>

\* ------------------------------------------------ selector: initial state
InitSelIdle ==
    /\ selEntries = <<>>
    /\ basePageSize = 1
    /\ cursor = 0
    /\ selectedSet = {}
    /\ commandBuffer = <<>>
    /\ statusMessage = NULL
    /\ terminalRows = 0
    /\ settled = FALSE
    /\ result = NoResult
    /\ exited = TRUE
    /\ mounted = FALSE

\* no readline selector is open
InitRawIdle ==
    /\ entries = <<>>
    /\ pageSize = JsUndefined
    /\ state = StartSelector(1).state
    /\ resolvedPageSize = 1
    /\ resolved = FALSE
    /\ cursorHidden = FALSE
    /\ stdoutRows = 0
    /\ glyphHidden = FALSE
    /\ frame = NoFrame
    /\ delivered = <<>>
    /\ alive = TRUE

\* no catalog function was called yet
NoRequest ==
    [name |-> "none", entries |-> <<>>, page |-> JsUndefined,
     limit |-> JsUndefined, status |-> UNDEF, returned |-> FALSE]
NoResponse ==
    [items |-> <<>>, total |-> 0, limit |-> 0, page |-> 0, totalPages |-> 0]

InitCatalogIdle ==
    /\ request = NoRequest
    /\ response = NoResponse

\* runInteractiveSelector({ entries, pageSize, ... }) has rendered the view
InitSel ==
    /\ selEntries \in EntryLists
    /\ basePageSize \in {1, 2}
    /\ cursor = 0
    /\ selectedSet = {}
    /\ commandBuffer = <<>>
    /\ statusMessage = NULL
    /\ terminalRows \in {0, 13}
    /\ settled = FALSE
    /\ result = NoResult
    /\ exited = FALSE
    /\ mounted = FALSE

\* ------------------------------------------------- store API: upsert spec
P1 == DocPath("show", "x")
P2 == DocPath("played", "x")

Payload(i, m, rp, sr, pr) ==
    [identifier |-> i, metadata |-> m, relativePath |-> rp,
     skipReason |-> sr, processed |-> pr]

\* payloads handed to upsert: metadata x relativePath x processed for "A",
\* and single payloads with a skipReason, a non-object metadata, an empty
\* relativePath, another identifier and no identifier
Payloads ==
    {Payload("A", m, rp, NULL, pr) :
        m \in {NoMeta, MetaObj("x", "played"), MetaObj("x", UNDEF)},
        rp \in {NullPath, P1}, pr \in BOOLEAN}
    \cup {Payload("A", NoMeta, NullPath, "r", FALSE),
          Payload("A", ScalarMeta, NullPath, NULL, FALSE),
          Payload("A", NoMeta, EmptyPath, NULL, FALSE),
          Payload("B", MetaObj("x", "unplayed"), P1, NULL, TRUE),
          Payload("B", NoMeta, NullPath, NULL, FALSE),
          Payload("", MetaObj("x", "played"), P1, NULL, TRUE)}

\* name: the operation; changed: what it returned; first: what the first of
\* two back-to-back upserts returned; fresh: whether the first of the two
\* found no entry for its identifier; warned, threw: a warning was printed,
\* an exception reached the caller
NoOp == [name |-> "none", changed |-> FALSE, first |-> FALSE,
         fresh |-> FALSE, warned |-> FALSE, threw |-> FALSE,
         input |-> "none"]

\* the identifier each key's entry was created with, once it exists
Created(old, ents) ==
    [k \in Ids |-> IF old[k] = "" /\ ents[k].present THEN ents[k].identifier
                   ELSE old[k]]

NoPass == [outcome |-> "none", saveCalled |-> FALSE, saveFailed |-> FALSE,
           warned |-> FALSE, loaded |-> EmptyEntries, identifiers |-> {}]

InitSync ==
    /\ cache = {}
    /\ live = EmptyMap
    /\ disk = {}
    /\ pass = NoPass
    /\ everRecorded = {}

InitManifest ==
    /\ manifest = EmptyEntries
    /\ clock = 1
    /\ op = NoOp
    /\ created = [k \in Ids |-> ""]
    /\ metadataMap = EmptyMap
    /\ file = StoreFile("missing", EmptyEntries)

InitCommon ==
    InitManifest /\ InitSync /\ InitSelIdle /\ InitRawIdle /\ InitCatalogIdle

\* time passes
Tick ==
    /\ clock < MaxClock
    /\ clock' = clock + 1
    /\ UNCHANGED <<manifest, op, created, metadataMap, file>>
    /\ UNCHANGED <<syncVars, selVars, rawVars, catalogVars>>

\* one call upsertManifestEntry(manifest, p)
Upsert(p) ==
    LET r == UpsertManifestEntry(manifest, p, clock)
    IN  /\ manifest' = r.entries
        /\ op' = [NoOp EXCEPT !.name = "upsert", !.changed = r.changed]
        /\ created' = Created(created, r.entries)
        /\ UNCHANGED <<clock, metadataMap, file>>
        /\ UNCHANGED <<syncVars, selVars, rawVars, catalogVars>>

\* two calls upsertManifestEntry(manifest, p) in a row with the same payload,
\* gap milliseconds apart, on a manifest that has no entry for p.identifier
UpsertTwice(p, gap) ==
    LET r1 == UpsertManifestEntry(manifest, p, clock)
        r2 == UpsertManifestEntry(r1.entries, p, clock + gap)
    IN  /\ clock + gap <= MaxClock
        /\ p.identifier # "" => ~manifest[p.identifier].present
        /\ clock' = clock + gap
        /\ manifest' = r2.entries
        /\ op' = [NoOp EXCEPT !.name = "upsertTwice",
                              !.first = r1.changed, !.changed = r2.changed,
                              !.fresh = p.identifier # ""
                                        /\ ~manifest[p.identifier].present]
        /\ created' = Created(created, r2.entries)
        /\ UNCHANGED <<metadataMap, file>>
        /\ UNCHANGED <<syncVars, selVars, rawVars, catalogVars>>

\* one call updateManifestRelativePath(manifest, old, new, targetBaseName)
RewritePath(old, new, targetBaseName) ==
    LET r == UpdateManifestRelativePath(manifest, old, new, targetBaseName,
                                        clock)
    IN  /\ manifest' = r.entries
        /\ op' = [NoOp EXCEPT !.name = "rewrite", !.changed = r.changed]
        /\ created' = Created(created, r.entries)
        /\ UNCHANGED <<clock, metadataMap, file>>
        /\ UNCHANGED <<syncVars, selVars, rawVars, catalogVars>>

Rewrites ==
    {<<P1, P2, "x">>, <<P1, P2, "x-1">>, <<P2, P1, "x">>, <<P2, P1, "">>,
     <<EmptyPath, P1, "x">>}

NextUpsert ==
    \/ Tick
    \/ \E p \in Payloads : Upsert(p)
    \/ \E p \in Payloads, gap \in {0, 1} : UpsertTwice(p, gap)
    \/ \E r \in Rewrites : RewritePath(r[1], r[2], r[3])

SpecUpsert == InitCommon /\ [][NextUpsert]_vars

\* -------------------------------- store API: load / save / merge spec
StorePayloads ==
    {Payload(i, m, P1, NULL, FALSE) :
        i \in Ids, m \in {NoMeta, MetaObj("x", "played"),
                          MetaObj("x-1", "unplayed")}}

\* what loadTranscriptMetadata can return for an identifier
LiveSlots == {NoSlot, Slot(MetaObj("x", "unplayed"), FALSE)}

InitStore ==
    /\ manifest = EmptyEntries
    /\ clock = 1
    /\ op = NoOp
    /\ created = [k \in Ids |-> ""]
    /\ metadataMap = EmptyMap
    /\ file \in {StoreFile(k, EmptyEntries) : k \in FileKinds \ {"valid"}}
    /\ InitSync
    /\ InitSelIdle
    /\ InitRawIdle
    /\ InitCatalogIdle

StoreUpsert(p) ==
    LET r == UpsertManifestEntry(manifest, p, clock)
    IN  /\ manifest' = r.entries
        /\ op' = [NoOp EXCEPT !.name = "upsert", !.changed = r.changed]
        /\ created' = Created(created, r.entries)
        /\ UNCHANGED <<clock, metadataMap, file>>
        /\ UNCHANGED <<syncVars, selVars, rawVars, catalogVars>>

\* a fresh metadata map comes back from the live source
SetLive(map) ==
    /\ metadataMap' = map
    /\ op' = [NoOp EXCEPT !.name = "live"]
    /\ UNCHANGED <<manifest, clock, created, file>>
    /\ UNCHANGED <<syncVars, selVars, rawVars, catalogVars>>

\* mergeManifestMetadataIntoMap(manifest, metadataMap)
Merge ==
    /\ metadataMap' = MergeManifestMetadataIntoMap(manifest, metadataMap)
    /\ op' = [NoOp EXCEPT !.name = "merge"]
    /\ UNCHANGED <<manifest, clock, created, file>>
    /\ UNCHANGED <<syncVars, selVars, rawVars, catalogVars>>

\* a consumer of the map writes a field of the metadata object it got from
\* the map (metadata.baseFileName = ... while documents are re-homed)
MutateMapMetadata(i, b) ==
    /\ metadataMap[i].present /\ metadataMap[i].meta.kind = "object"
    /\ metadataMap' = [metadataMap EXCEPT ![i].meta.baseFileName = b]
    /\ manifest' = IF metadataMap[i].shared
                   THEN [manifest EXCEPT ![i].metadata.baseFileName = b]
                   ELSE manifest
    /\ op' = [NoOp EXCEPT !.name = "mutate"]
    /\ UNCHANGED <<clock, created, file>>
    /\ UNCHANGED <<syncVars, selVars, rawVars, catalogVars>>

\* loadListeningStatusManifest(baseDirectory)
Load ==
    LET r == LoadListeningStatusManifest(file)
    IN  /\ manifest' = IF r.threw THEN manifest ELSE r.entries
        /\ op' = [NoOp EXCEPT !.name = "load", !.warned = r.warned,
                              !.threw = r.threw]
        /\ created' = [k \in Ids |-> ""]
        /\ UNCHANGED <<clock, metadataMap, file>>
        /\ UNCHANGED <<syncVars, selVars, rawVars, catalogVars>>

\* saveListeningStatusManifest(baseDirectory, manifest)
Save(ioOk) ==
    LET r == SaveListeningStatusManifest(file, manifest, ioOk)
    IN  /\ file' = r.file
        /\ op' = [NoOp EXCEPT !.name = "save", !.threw = r.threw]
        /\ UNCHANGED <<manifest, clock, created, metadataMap>>
        /\ UNCHANGED <<syncVars, selVars, rawVars, catalogVars>>

NextStore ==
    \/ \E p \in StorePayloads : StoreUpsert(p)
    \/ \E map \in [Ids -> LiveSlots] : SetLive(map)
    \/ Merge
    \/ \E i \in Ids : MutateMapMetadata(i, "x-1")
    \/ Load
    \/ \E ioOk \in BOOLEAN : Save(ioOk)

SpecStore == InitStore /\ [][NextStore]_vars

\* ------------------------------------------------- synchronization pass
\* Two episodes of one show share the base name "x" (same show, date and
\* slug); an episode without metadata is written under the fallback show
\* directory with a base name derived from its identifier.  Directory
\* "played" is the played sub-directory of the show directory.
IdSeq == <<"A", "B">>
Names == {"x", "x-1"} \cup Ids

\* buildFallbackMetadata({ showSlug, rawEpisodeTitle, dateSegment, ... })
FallbackMeta(i) ==
    [kind |-> "object", title |-> i, baseFileName |-> i, ls |-> NULL]

SourceSlots ==
    {NoSlot, Slot(MetaObj("x", "played"), FALSE),
     Slot(MetaObj("x", "unplayed"), FALSE)}

\* slugify(metadata.showTitle, "unknown-show")
ShowDirOf(title) == IF title = "x" THEN "show" ELSE "unknown"

\* ensureEpisodeOutputDirectory(baseDirectory, showSlug, playState)
EnsureEpisodeOutputDirectory(showDir, playState) ==
    IF playState = "played"
    THEN (IF showDir = "show" THEN "played" ELSE "unknownPlayed")
    ELSE showDir

\* metadata && metadata.listeningStatus ? metadata.listeningStatus.playState
\*                                      : null
PlayStateOf(m) == IF m.kind = "object" /\ m.ls # NULL THEN m.ls ELSE NULL

\* loadTranscriptMetadata(identifiers)
LoadTranscriptMetadata(identifiers, lv) ==
    [i \in Ids |-> IF i \in identifiers THEN lv[i] ELSE NoSlot]

\* insertion order of the metadata map: what the live source returned, then
\* what the merge added
MapOrder(liveMap, merged) ==
    LET IsLive(i) == liveMap[i].present
        IsMerged(i) == ~liveMap[i].present /\ merged[i].present
    IN  SelectSeq(IdSeq, IsLive) \o SelectSeq(IdSeq, IsMerged)

\* buildMetadataFilenameIndex(metadataMap): base name -> identifiers of the
\* metadata objects listed under it
BuildMetadataFilenameIndex(map, order) ==
    [b \in Names |->
        LET Listed(i) == /\ map[i].meta.kind = "object"
                         /\ map[i].meta.baseFileName = b
        IN  SelectSeq(order, Listed)]

\* resolveMetadataForFile(metadataIndex, fileBaseName): the identifier whose
\* metadata object is returned, "" for null.  No base name of the model
\* starts with "played_", so the toggled key is never in the index.
ResolveMetadataForFile(index, fileBaseName) ==
    LET suffixMatch == fileBaseName = "x-1"
        baseKey == IF suffixMatch THEN "x" ELSE fileBaseName
        list == index[baseKey]
    IN  IF ~suffixMatch
        THEN (IF Len(list) = 0 THEN "" ELSE list[1])
        ELSE (IF 1 < Len(list) THEN list[2] ELSE "")

\* the order in which the documents under the transcripts directory are
\* visited (directory listing order; sub-directories where they sort)
DocOrder ==
    <<DocPath("played", "x-1"), DocPath("played", "x"),
      DocPath("show", "x-1"), DocPath("show", "x"),
      DocPath("unknown", "A"), DocPath("unknown", "B")>>

\* where a document belongs: the directory of its show, or the played
\* directory below it when the metadata says the episode is played
TargetPathOf(doc, metadata) ==
    DocPath(EnsureEpisodeOutputDirectory(
                IF doc.dir = "played" THEN "show" ELSE doc.dir,
                PlayStateOf(metadata)),
            doc.name)

\* renameSync and updateManifestRelativePath, when the target is another
\* path and is free.  st: entries, map, disk, changed.
MoveDocument(doc, targetPath, st, nowIso) ==
    IF targetPath # doc /\ targetPath \notin st.disk
    THEN [st EXCEPT
            !.entries = UpdateManifestRelativePath(
                            st.entries, doc, targetPath, doc.name,
                            nowIso).entries,
            !.changed = st.changed
                        \/ UpdateManifestRelativePath(
                               st.entries, doc, targetPath, doc.name,
                               nowIso).changed,
            !.disk = (st.disk \ {doc}) \cup {targetPath}]
    ELSE st

\* metadata.baseFileName = baseNameWithoutPrefix, on the object of the map
SetBaseFileName(id, baseNameWithoutPrefix, st) ==
    IF id = "" THEN st
    ELSE [st EXCEPT
            !.map[id].meta.baseFileName = baseNameWithoutPrefix,
            !.entries[id].metadata.baseFileName =
                IF st.map[id].shared THEN baseNameWithoutPrefix ELSE @]

\* the body of the forEach of updateExistingMarkdownFiles for one document;
\* id: whose metadata resolveMetadataForFile returned, "" for null
UpdateOneMarkdownFile(doc, id, st, nowIso) ==
    SetBaseFileName(
        id, doc.name,
        MoveDocument(
            doc,
            TargetPathOf(doc, IF id = "" THEN NoMeta ELSE st.map[id].meta),
            st, nowIso))

\* updateExistingMarkdownFiles(directoryPath, metadataIndex, manifest, root)
\* present: the directory listings read before any document is moved
RECURSIVE UpdateExistingMarkdownFiles(_, _, _, _, _)
UpdateExistingMarkdownFiles(docs, present, index, st, nowIso) ==
    IF docs = <<>> THEN st
    ELSE UpdateExistingMarkdownFiles(
             Tail(docs), present, index,
             IF Head(docs) \in present
             THEN UpdateOneMarkdownFile(
                      Head(docs),
                      ResolveMetadataForFile(index, Head(docs).name),
                      st, nowIso)
             ELSE st,
             nowIso)

\* prepareExistingMarkdown(metadataFilenameIndex, manifest)
PrepareExistingMarkdown(index, ents, map, dsk, nowIso) ==
    UpdateExistingMarkdownFiles(
        DocOrder, dsk, index,
        [entries |-> ents, map |-> map, disk |-> dsk, changed |-> FALSE],
        nowIso)

\* the sort of the TTML files: dated episodes first, then by identifier
SortedTtmlFiles(identifiers, map) ==
    LET Dated(i) == i \in identifiers /\ map[i].meta.title = "x"
        Undated(i) == i \in identifiers /\ map[i].meta.title # "x"
    IN  SelectSeq(IdSeq, Dated) \o SelectSeq(IdSeq, Undated)

\* metadataMatchesFilters(metadata, filterConfig) for a filter on the show
FilteredTtmlFiles(files, map, filter) ==
    LET Allowed(i) == filter = "none" \/ map[i].meta.title = "x"
    IN  SelectSeq(files, Allowed)

CountKeys ==
    {DocPath(d, t) : d \in {"show", "played", "unknown", "unknownPlayed"},
                     t \in {"x"} \cup Ids}

\* `${baseName}${suffix}`
Suffixed(baseName, count) ==
    IF count = 0 THEN baseName
    ELSE IF baseName = "x" /\ count = 1 THEN "x-1" ELSE "x-n"

\* metadataMap.get(file.identifier) || null
MetadataOf(map, id) ==
    IF map[id].present THEN MetaOrNull(map[id].meta) ELSE NoMeta

\* `${showSlug}_${dateSegment}_${episodeSlug}`
BaseNameOf(id, metadata) ==
    IF metadata.kind = "object" THEN metadata.title ELSE id

\* countKey of resolveOutputPath
CountKey(baseName, playState) ==
    DocPath(IF playState = "played"
            THEN EnsureEpisodeOutputDirectory(ShowDirOf(baseName), "played")
            ELSE ShowDirOf(baseName),
            baseName)

\* resolveOutputPath({ filenameCounts, showSlug, ... }): the path
ResolveOutputPath(counts, baseName, playState) ==
    DocPath(EnsureEpisodeOutputDirectory(ShowDirOf(baseName), playState),
            Suffixed(baseName, counts[CountKey(baseName, playState)]))

\* resolveOutputPath: filenameCounts.set(countKey, count + 1)
BumpCount(counts, baseName, playState) ==
    [counts EXCEPT ![CountKey(baseName, playState)] = @ + 1]

\* the document is written and the entry upserted with processed: true
UpsertProcessed(id, metadataForManifest, outputPath, counts1, st, nowIso) ==
    [entries |-> UpsertManifestEntry(
                     st.entries,
                     Payload(id, metadataForManifest, outputPath, NULL, TRUE),
                     nowIso).entries,
     disk |-> st.disk \cup {outputPath},
     changed |-> UpsertManifestEntry(
                     st.entries,
                     Payload(id, metadataForManifest, outputPath, NULL, TRUE),
                     nowIso).changed
                 \/ st.changed,
     threw |-> FALSE,
     counts |-> counts1]

\* the body of the loop of handleBatch for one file; reading the TTML file
\* named readFail throws.  st: entries, disk, changed, threw, counts.
ProcessFile(id, metadata, st, readFail, nowIso) ==
    IF id = readFail
    THEN [st EXCEPT !.threw = TRUE,
                    !.counts = BumpCount(st.counts, BaseNameOf(id, metadata),
                                         PlayStateOf(metadata))]
    ELSE UpsertProcessed(
             id,
             IF metadata.kind = "object" THEN metadata ELSE FallbackMeta(id),
             ResolveOutputPath(st.counts, BaseNameOf(id, metadata),
                               PlayStateOf(metadata)),
             BumpCount(st.counts, BaseNameOf(id, metadata),
                       PlayStateOf(metadata)),
             st, nowIso)

\* the loop of handleBatch over the files
RECURSIVE ProcessFiles(_, _, _, _, _)
ProcessFiles(files, map, st, readFail, nowIso) ==
    IF files = <<>> \/ st.threw THEN st
    ELSE ProcessFiles(
             Tail(files), map,
             ProcessFile(Head(files), MetadataOf(map, Head(files)), st,
                         readFail, nowIso),
             readFail, nowIso)

\* the end of handleBatch with the manifest write dropped when an
\* identifier is archived
FinishPass_PrunesArchived(f, ents, manifestChanged, identifiers, ioOk) ==
    LET kept == [i \in Ids |-> IF i \in identifiers THEN ents[i]
                               ELSE NoEntry]
        r == SaveListeningStatusManifest(f, kept, ioOk)
    IN  IF manifestChanged
        THEN [file |-> r.file, saveCalled |-> TRUE, saveFailed |-> r.threw,
              outcome |-> IF r.threw THEN "threw" ELSE "ok"]
        ELSE [file |-> f, saveCalled |-> FALSE, saveFailed |-> FALSE,
              outcome |-> "ok"]

\* the end of handleBatch with the save wrapped in a catch
FinishPass_SwallowsSaveError(f, ents, manifestChanged, identifiers, ioOk) ==
    LET r == SaveListeningStatusManifest(f, ents, ioOk)
    IN  IF manifestChanged
        THEN [file |-> r.file, saveCalled |-> TRUE, saveFailed |-> r.threw,
              outcome |-> "ok"]
        ELSE [file |-> f, saveCalled |-> FALSE, saveFailed |-> FALSE,
              outcome |-> "ok"]

\* the end of handleBatch with the save outside the if
FinishPass_AlwaysSaves(f, ents, manifestChanged, identifiers, ioOk) ==
    LET r == SaveListeningStatusManifest(f, ents, ioOk)
    IN  [file |-> r.file, saveCalled |-> TRUE, saveFailed |-> r.threw,
         outcome |-> IF r.threw THEN "threw" ELSE "ok"]

\* the end of handleBatch: the archived identifiers are only counted, the
\* manifest is saved if it changed, an exception of the save is not caught
FinishPass(f, ents, manifestChanged, identifiers, ioOk) ==
    LET r == SaveListeningStatusManifest(f, ents, ioOk)
    IN  IF manifestChanged
        THEN [file |-> r.file, saveCalled |-> TRUE, saveFailed |-> r.threw,
              outcome |-> IF r.threw THEN "threw" ELSE "ok"]
        ELSE [file |-> f, saveCalled |-> FALSE, saveFailed |-> FALSE,
              outcome |-> "ok"]

PassInput(e, fl, rf, ok) ==
    [ttmlDirExists |-> e, filter |-> fl, readFail |-> rf, ioOk |-> ok]

\* a plain run, a run with a show filter, a run where reading a TTML file
\* fails, a run where the manifest write fails, a run without the cache
PassInputs ==
    {PassInput(TRUE, "none", "", TRUE), PassInput(TRUE, "show", "", TRUE),
     PassInput(TRUE, "none", "B", TRUE), PassInput(TRUE, "none", "", FALSE),
     PassInput(FALSE, "none", "", TRUE)}

\* what a run reports: the file, the manifest object, the documents, and
\* the record of the run
BatchResult(f, ents, dsk, identifiers, loaded, outcome, fin) ==
    [file |-> f, manifest |-> ents, disk |-> dsk,
     pass |-> [outcome |-> outcome, saveCalled |-> fin.saveCalled,
               saveFailed |-> fin.saveFailed, warned |-> loaded.warned,
               loaded |-> loaded.entries, identifiers |-> identifiers]]

NoSave == [saveCalled |-> FALSE, saveFailed |-> FALSE]

\* handleBatch after the loop: an exception of the loop leaves the function,
\* else the manifest is saved when it changed
BatchAfterLoop(f, identifiers, done, fin, loaded) ==
    IF done.threw
    THEN BatchResult(f, done.entries, done.disk, identifiers, loaded,
                     "threw", NoSave)
    ELSE BatchResult(fin.file, done.entries, done.disk, identifiers, loaded,
                     fin.outcome, fin)

\* handleBatch from the loop on
BatchLoop(f, identifiers, done, loaded, inp) ==
    BatchAfterLoop(
        f, identifiers, done,
        FinishPass(f, done.entries, done.changed, identifiers, inp.ioOk),
        loaded)

\* handleBatch from prepareExistingMarkdown on
BatchAfterPrepare(f, identifiers, files, prep, loaded, inp, nowIso) ==
    BatchLoop(
        f, identifiers,
        ProcessFiles(
            files, prep.map,
            [entries |-> prep.entries, disk |-> prep.disk,
             changed |-> prep.changed, threw |-> FALSE,
             counts |-> [k \in CountKeys |-> 0]],
            inp.readFail, nowIso),
        loaded, inp)

\* handleBatch from the filters on: no file matching the filters ends the run
BatchAfterFilter(f, identifiers, index, files, map, loaded, dsk, inp, nowIso) ==
    IF inp.filter # "none" /\ files = <<>>
    THEN BatchResult(f, loaded.entries, dsk, identifiers, loaded, "nomatch",
                     NoSave)
    ELSE BatchAfterPrepare(
             f, identifiers, files,
             PrepareExistingMarkdown(index, loaded.entries, map, dsk, nowIso),
             loaded, inp, nowIso)

\* handleBatch from the merge on
BatchAfterMerge(f, identifiers, liveMap, map, loaded, dsk, inp, nowIso) ==
    BatchAfterFilter(
        f, identifiers,
        BuildMetadataFilenameIndex(map, MapOrder(liveMap, map)),
        FilteredTtmlFiles(SortedTtmlFiles(identifiers, map), map, inp.filter),
        map, loaded, dsk, inp, nowIso)

\* handleBatch from the load of the manifest on
BatchAfterLoad(f, identifiers, liveMap, loaded, dsk, inp, nowIso) ==
    BatchAfterMerge(
        f, identifiers, liveMap,
        MergeManifestMetadataIntoMap(loaded.entries, liveMap),
        loaded, dsk, inp, nowIso)

\* handleBatch({ includeTimestamps, showFilters, stationFilters, ... })
HandleBatch(f, ents0, identifiers, lv, dsk, inp, nowIso) ==
    IF ~inp.ttmlDirExists
    THEN BatchResult(f, ents0, dsk, identifiers,
                     [entries |-> ents0, warned |-> FALSE], "exit", NoSave)
    ELSE BatchAfterLoad(
             f, identifiers, LoadTranscriptMetadata(identifiers, lv),
             LoadListeningStatusManifest(f), dsk, inp, nowIso)

\* identifiers that have an entry in the persisted manifest
RecordedIds(f) ==
    {i \in Ids : f.kind = "valid" /\ f.entries[i].present}

\* one run of the batch command.  A run takes time: what it stamps is later
\* than every stamp of the runs before it.
SyncPass(inp) ==
    LET r == HandleBatch(file, manifest, cache, live, disk, inp, clock)
    IN  /\ clock <= MaxPasses
        /\ clock' = clock + 1
        /\ file' = r.file
        /\ manifest' = r.manifest
        /\ disk' = r.disk
        /\ pass' = r.pass
        /\ everRecorded' = everRecorded \cup RecordedIds(r.file)
        /\ created' = Created(created, r.manifest)
        /\ op' = [NoOp EXCEPT !.name = "pass", !.input = inp]
        /\ UNCHANGED <<metadataMap, cache, live, selVars, rawVars, catalogVars>>

\* TTML files appear in and are evicted from the cache
SetCache(identifiers) ==
    /\ cache' = identifiers
    /\ UNCHANGED <<storeVars, live, disk, pass, everRecorded, selVars,
                   rawVars, catalogVars>>

\* the live source changes what it knows
SetLiveSource(lv) ==
    /\ live' = lv
    /\ UNCHANGED <<storeVars, cache, disk, pass, everRecorded, selVars,
                   rawVars, catalogVars>>

NextSync ==
    \/ \E identifiers \in SUBSET Ids : SetCache(identifiers)
    \/ \E lv \in [Ids -> SourceSlots] : SetLiveSource(lv)
    \/ \E inp \in PassInputs : SyncPass(inp)

SpecSync == InitCommon /\ [][NextSync]_vars

\* --------------------------------------------------- selector: key events
\* handleResolve(arg): onResolve settles the promise once, then exit()
HandleResolve(arg) ==
    /\ settled' = TRUE
    /\ result' = IF settled THEN result ELSE arg
    /\ exited' = TRUE
    /\ mounted' = mounted

StayOpen == UNCHANGED <<settled, result, exited, mounted>>

\* ctrl-c, escape, q
KeyCancel ==
    /\ mounted /\ ~exited
    /\ statusMessage' = NULL
    /\ HandleResolve(NullResult)
    /\ UNCHANGED <<selEntries, basePageSize, cursor, selectedSet,
                   commandBuffer, terminalRows>>
    /\ UNCHANGED <<storeVars, syncVars, rawVars, catalogVars>>

\* up arrow (-1), down arrow (1)
KeyMove(delta) ==
    LET r == HandleMoveCursor(cursor, Len(selEntries), delta)
    IN  /\ mounted /\ ~exited
        /\ commandBuffer' = <<>>
        /\ cursor' = ClampCursor(r.cursor, Len(selEntries))
        /\ statusMessage' = r.status
        /\ StayOpen
        /\ UNCHANGED <<selEntries, basePageSize, selectedSet, terminalRows>>
        /\ UNCHANGED <<storeVars, syncVars, rawVars, catalogVars>>

\* left arrow, page up, p (-1); right arrow, page down, n (1)
KeyPage(delta) ==
    LET r == HandleMovePage(
                 cursor, Len(selEntries),
                 ComputeResolvedPageSize(terminalRows, basePageSize), delta)
    IN  /\ mounted /\ ~exited
        /\ commandBuffer' = <<>>
        /\ cursor' = ClampCursor(r.cursor, Len(selEntries))
        /\ statusMessage' = r.status
        /\ StayOpen
        /\ UNCHANGED <<selEntries, basePageSize, selectedSet, terminalRows>>
        /\ UNCHANGED <<storeVars, syncVars, rawVars, catalogVars>>

\* return
KeyReturn ==
    LET r == HandleReturn(selEntries, cursor, selectedSet, commandBuffer)
    IN  /\ mounted /\ ~exited
        /\ commandBuffer' = <<>>
        /\ statusMessage' = r.status
        /\ IF r.resolve THEN HandleResolve(r.result) ELSE StayOpen
        /\ UNCHANGED <<selEntries, basePageSize, cursor, selectedSet,
                       terminalRows>>
        /\ UNCHANGED <<storeVars, syncVars, rawVars, catalogVars>>

\* backspace
KeyBackspace ==
    /\ mounted /\ ~exited
    /\ statusMessage' = NULL
    /\ commandBuffer' = SubSeq(commandBuffer, 1, Len(commandBuffer) - 1)
    /\ StayOpen
    /\ UNCHANGED <<selEntries, basePageSize, cursor, selectedSet,
                   terminalRows>>
    /\ UNCHANGED <<storeVars, syncVars, rawVars, catalogVars>>

\* space: toggleSelect(cursor)
KeySpace ==
    /\ mounted /\ ~exited
    /\ statusMessage' = NULL
    /\ commandBuffer' = <<>>
    /\ selectedSet' = IF cursor \in selectedSet THEN selectedSet \ {cursor}
                      ELSE selectedSet \cup {cursor}
    /\ StayOpen
    /\ UNCHANGED <<selEntries, basePageSize, cursor, terminalRows>>
    /\ UNCHANGED <<storeVars, syncVars, rawVars, catalogVars>>

\* "." or ">" (1), "," or "<" (-1)
KeySelectedNav(direction) ==
    /\ mounted /\ ~exited
    /\ statusMessage' = NULL
    /\ commandBuffer' = <<>>
    /\ cursor' = ClampCursor(
                     IF selectedSet = {} THEN cursor
                     ELSE MoveCursorToSelected(selectedSet, cursor,
                                               direction),
                     Len(selEntries))
    /\ StayOpen
    /\ UNCHANGED <<selEntries, basePageSize, selectedSet, terminalRows>>
    /\ UNCHANGED <<storeVars, syncVars, rawVars, catalogVars>>

\* a digit
KeyDigit(d) ==
    /\ mounted /\ ~exited
    /\ Len(commandBuffer) < MaxBuffer
    /\ statusMessage' = NULL
    /\ commandBuffer' = Append(commandBuffer, d)
    /\ StayOpen
    /\ UNCHANGED <<selEntries, basePageSize, cursor, selectedSet,
                   terminalRows>>
    /\ UNCHANGED <<storeVars, syncVars, rawVars, catalogVars>>

\* the resize listener of the view
Resize(rows) ==
    /\ mounted /\ ~exited
    /\ terminalRows' = rows
    /\ StayOpen
    /\ UNCHANGED <<selEntries, basePageSize, cursor, selectedSet,
                   commandBuffer, statusMessage>>
    /\ UNCHANGED <<storeVars, syncVars, rawVars, catalogVars>>

\* runInteractiveSelector: startApp() loads ink and renders the view
StartApp ==
    /\ ~mounted /\ ~exited /\ ~settled
    /\ mounted' = TRUE
    /\ UNCHANGED <<selEntries, basePageSize, cursor, selectedSet,
                   commandBuffer, statusMessage, terminalRows, settled,
                   result, exited>>
    /\ UNCHANGED <<storeVars, syncVars, rawVars, catalogVars>>

\* startApp() rejects (ink cannot be loaded, or render throws): the catch
\* handler warns and resolves the promise with null
StartFails ==
    /\ ~mounted /\ ~exited /\ ~settled
    /\ settled' = TRUE
    /\ result' = NullResult
    /\ exited' = TRUE
    /\ UNCHANGED <<selEntries, basePageSize, cursor, selectedSet,
                   commandBuffer, statusMessage, terminalRows, mounted>>
    /\ UNCHANGED <<storeVars, syncVars, rawVars, catalogVars>>

NextSel ==
    \/ StartApp
    \/ StartFails
    \/ KeyCancel
    \/ \E delta \in {-1, 1} : KeyMove(delta)
    \/ \E delta \in {-1, 1} : KeyPage(delta)
    \/ KeyReturn
    \/ KeyBackspace
    \/ KeySpace
    \/ \E direction \in {-1, 1} : KeySelectedNav(direction)
    \/ \E d \in Digits : KeyDigit(d)
    \/ \E rows \in Rows : Resize(rows)

InitSelector ==
    InitManifest /\ InitSync /\ InitSel /\ InitRawIdle /\ InitCatalogIdle

SpecSel == InitSelector /\ [][NextSel]_vars

\* ------------------------------------------- readline selector: its events
RawState ==
    [state |-> state, resolvedPageSize |-> resolvedPageSize,
     resolved |-> resolved, cursorHidden |-> cursorHidden,
     glyphHidden |-> glyphHidden, frame |-> frame, delivered |-> delivered]

RawEnv(rows) ==
    [entries |-> entries, basePageSize |-> BasePageSize(pageSize),
     rows |-> rows]

SetRawState(r) ==
    /\ state' = r.state
    /\ resolvedPageSize' = r.resolvedPageSize
    /\ resolved' = r.resolved
    /\ cursorHidden' = r.cursorHidden
    /\ glyphHidden' = r.glyphHidden
    /\ frame' = r.frame
    /\ delivered' = r.delivered

\* the selector is opened by handleSelectCommand, which returns before it
\* when no entry is left after filtering: hideCursor() and the first
\* render() have run
InitRaw ==
    /\ entries \in EntryLists \ {<<>>}
    /\ pageSize \in {Num(2), JsUndefined}
    /\ stdoutRows \in {0, 13}
    /\ alive = TRUE
    /\ LET r == Render(HideCursor(StartSelector(BasePageSize(pageSize))),
                       RawEnv(stdoutRows))
       IN  /\ state = r.state
           /\ resolvedPageSize = r.resolvedPageSize
           /\ resolved = r.resolved
           /\ cursorHidden = r.cursorHidden
           /\ glyphHidden = r.glyphHidden
           /\ frame = r.frame
           /\ delivered = r.delivered

\* a keypress event of process.stdin
Keypress(key) ==
    /\ alive
    /\ key \in DigitKeys => Len(state.commandBuffer) < MaxBuffer
    /\ \E r \in {RawState}, env \in {RawEnv(stdoutRows)} :
           \E next \in {HandleKeypress(r, env, key)} : SetRawState(next)
    /\ UNCHANGED <<entries, pageSize, stdoutRows, alive>>
    /\ UNCHANGED <<storeVars, syncVars, selVars, catalogVars>>

\* a resize event of process.stdout
StdoutResize(rows) ==
    /\ alive
    /\ stdoutRows' = rows
    /\ \E r \in {RawState}, env \in {RawEnv(rows)} :
           \E next \in {HandleResize(r, env)} : SetRawState(next)
    /\ UNCHANGED <<entries, pageSize, alive>>
    /\ UNCHANGED <<storeVars, syncVars, selVars, catalogVars>>

\* a signal whose default action terminates the process (SIGTERM, SIGHUP):
\* no listener is registered for it, so no code of the selector runs
Interrupt ==
    /\ alive
    /\ alive' = FALSE
    /\ UNCHANGED <<entries, pageSize, state, resolvedPageSize, resolved,
                   cursorHidden, stdoutRows, glyphHidden, frame, delivered>>
    /\ UNCHANGED <<storeVars, syncVars, selVars, catalogVars>>

NextRaw ==
    \/ \E key \in Keys : Keypress(key)
    \/ \E rows \in ReadlineRows : StdoutResize(rows)
    \/ Interrupt

InitReadline ==
    InitManifest /\ InitSync /\ InitSelIdle /\ InitRaw /\ InitCatalogIdle

SpecRaw == InitReadline /\ [][NextRaw]_vars

\* ------------------------------------------------- either selector
\* one of the two selectors is opened and receives its events; the
\* listeners of the readline selector exist only while it is open
NextSelectors == NextSel \/ (entries # <<>> /\ NextRaw)

InitSelectors == InitSelector \/ InitReadline

SpecSelectors == InitSelectors /\ [][NextSelectors]_vars

\* ------------------------------------- synchronization pass: file names
\* the files of one pass: up to MaxItems episodes of one show and one day,
\* titled "E", "E 1" or "e", each played or not
MaxItems == 3

EpisodeTitleChoices == {<<"E">>, <<"E", " ", "1">>, <<"e">>}

SourceItems ==
    {SourceItem(<<"S">>, title, <<"d">>, playState) :
        title \in EpisodeTitleChoices, playState \in {"played", "unplayed"}}

PathsRequest(items) == [name |-> "paths", items |-> items, returned |-> FALSE]

InitPaths ==
    /\ \E n \in 0..MaxItems : \E items \in [1..n -> SourceItems] :
           request = PathsRequest(items)
    /\ response = NoResponse

\* the loop of handleBatch resolves the output path of every file
ResolvePaths ==
    /\ request.name = "paths"
    /\ ~request.returned
    /\ request' = [request EXCEPT !.returned = TRUE]
    /\ response' = [paths |-> ResolveOutputPaths(request.items, <<>>)]
    /\ UNCHANGED <<storeVars, syncVars, selVars, rawVars>>

NextPaths == ResolvePaths

InitPathCalls ==
    InitManifest /\ InitSync /\ InitSelIdle /\ InitRawIdle /\ InitPaths

SpecPaths == InitPathCalls /\ [][NextPaths]_vars

\* ------------------------------------------------- catalog: calls checked
MaxTotal == 25
MaxList == 2
MaxSort == 3
MaxQuery == 3

Pages ==
    {JsUndefined, JsNull, Num(-1), Num(0), Num(1), Num(2), Num(3), Num(4),
     Num(99), Str(<<"a", "b", "c">>), Str(<<>>), Str(<<"2">>),
     Str(<<"2", "x">>), Str(<<"-", "1">>), Str(<<" ", "3">>)}

Limits ==
    {JsUndefined, JsNull, Num(0), Num(-5), Num(1), Num(2), Num(10),
     Str(<<"x">>), Str(<<"1", "0">>)}

NumberedEntries(n) == [i \in 1..n |-> CatalogEntry(i, "played")]

PlayStateLists == UNION {[1..n -> PlayStates] : n \in 0..MaxList}

WithIds(playStates) ==
    [i \in 1..Len(playStates) |-> CatalogEntry(i, playStates[i])]

\* the calls checked: the arguments are chosen first, then the call runs
PaginateRequests ==
    {[name |-> "paginate", entries |-> NumberedEntries(n), page |-> page,
      limit |-> limit, status |-> UNDEF, returned |-> FALSE] :
        n \in 0..MaxTotal, page \in Pages, limit \in Limits}

FilterRequests ==
    {[name |-> "filter", entries |-> WithIds(playStates),
      page |-> JsUndefined, limit |-> JsUndefined, status |-> status,
      returned |-> FALSE] :
        playStates \in PlayStateLists, status \in Statuses}

\* the entries sorted: up to MaxSort entries of distinct identifiers, with
\* titles that differ in case only, in a letter, or not at all
SortIdentifiers == <<(<<"a", "b">>), (<<"A">>), (<<"a">>), (<<"1">>)>>
SortTimestamps == {1, 2}
Titles ==
    {[show |-> <<"a">>, episode |-> <<"b">>],
     [show |-> <<"A">>, episode |-> <<"b">>],
     [show |-> <<"a">>, episode |-> <<"B">>],
     [show |-> <<"b">>, episode |-> <<"b">>],
     [show |-> <<"a">>, episode |-> <<"a", "b">>]}

SortEntriesOf(ids) ==
    {[i \in 1..Len(ids) |->
          SortEntry(ts[i], titles[i].show, titles[i].episode,
                    SortIdentifiers[ids[i]], "played")] :
        ts \in [1..Len(ids) -> SortTimestamps],
        titles \in [1..Len(ids) -> Titles]}

\* the strictly increasing sequences of n numbers out of 1..m
RECURSIVE Ascending(_, _)
Ascending(n, m) ==
    IF n = 0 THEN {<<>>}
    ELSE IF m = 0 THEN {}
    ELSE Ascending(n, m - 1)
             \cup {Append(q, m) : q \in Ascending(n - 1, m - 1)}

SortIdLists == UNION {Ascending(n, Len(SortIdentifiers)) : n \in 0..MaxSort}

SortRequest(ents) ==
    [name |-> "sort", entries |-> ents, page |-> JsUndefined,
     limit |-> JsUndefined, status |-> UNDEF, returned |-> FALSE]

\* the manifest listed: MaxTotal entries, ten of them played (the first
\* ten, the last ten, or every second one), of the others the first k
\* unplayed and the rest in progress; timestamps all different or shared by
\* many entries
PlayedMasks == {"first", "last", "alternate"}
TimestampPatterns == {"distinct", "shared"}

IsPlayedAt(mask, i) ==
    CASE mask = "first" -> i <= 10
      [] mask = "last" -> i > MaxTotal - 10
      [] mask = "alternate" -> i % 2 = 0 /\ i <= 20

ListPlayState(mask, k, i) ==
    IF IsPlayedAt(mask, i) THEN "played"
    ELSE IF Cardinality({j \in 1..i : ~IsPlayedAt(mask, j)}) <= k
    THEN "unplayed"
    ELSE "inProgress"

ListManifest(mask, k, pattern) ==
    [i \in 1..MaxTotal |->
        SortEntry(IF pattern = "distinct" THEN i ELSE i % 3,
                  IF i % 2 = 0 THEN <<"a">> ELSE <<"A">>,
                  IF i % 5 = 0 THEN <<"B">> ELSE <<"b">>,
                  DecimalDigits(i),
                  ListPlayState(mask, k, i))]

ListRequests ==
    {[name |-> "list", entries |-> ListManifest(mask, k, pattern),
      page |-> page, limit |-> limit, status |-> status,
      returned |-> FALSE] :
        mask \in PlayedMasks, k \in 1..(MaxTotal - 11),
        pattern \in TimestampPatterns,
        page \in {JsUndefined, Num(1), Num(2), Num(3)},
        limit \in {JsUndefined, Num(5), Num(10)},
        status \in {UNDEF, "all", "unplayed", "played", "inProgress"}}

\* the strings matched: every string of up to n characters out of a
\* letter, a capital, a blank and a colon, and the examples of the manual
MatchAlphabet == {"h", "F", " ", ":"}

StringsUpTo(n) == UNION {[1..k -> MatchAlphabet] : k \in 0..n}

HF == <<"H", "F">>
HardFork == <<"H", "a", "r", "d", " ", "F", "o", "r", "k">>
HardForkLower == <<"h", "a", "r", "d", " ", "f", "o", "r", "k">>
HardForkAiEdition == HardFork \o <<":", " ", "A", "I", " ", "E", "d", "i", "t", "i", "o", "n">>
Cafe == <<"c", "a", "f", "e">>
CafeAccented == <<"C", "a", "f", "e-acute">>

MatchExamples ==
    {<<Str(HF), Str(HardFork)>>, <<Str(HardForkLower), Str(HardForkAiEdition)>>,
     <<Str(Cafe), Str(CafeAccented)>>, <<Str(HardFork), Str(HF)>>,
     <<Str(HF), JsNull>>, <<Str(HF), Num(12)>>, <<Num(2), Num(12)>>}

MatchRequest(query, value) ==
    [name |-> "match", query |-> query, value |-> value, returned |-> FALSE]

\* the manifest entries whose titles are built: each field missing, empty
\* or given; a slug of hyphens only; a base file name with and without
\* its two underscores; a path with either separator
ShowTitleInputs ==
    {JsUndefined, Str(<<>>), Str(UnknownShowPlaceholder), Str(<<"H", "f">>)}
ShowSlugInputs == {JsUndefined, Str(<<"-">>), Str(<<"h", "-", "f">>)}
EpisodeTitleInputs == {JsUndefined, Str(<<>>), Str(<<"E", "p">>)}
BaseFileNameInputs ==
    {JsUndefined, Str(<<"s", "_", "d", "_", "e", "-", "p">>), Str(<<"x">>),
     Str(<<"s", "_", "d", "_", "-">>)}
RelativePathInputs ==
    {JsNull, Str(<<"s", "/", "e">>), Str(<<"s", "\\", "e">>)}
IdentifierInputs == {JsUndefined, Str(<<"i">>)}
Builders == {"catalog", "extract"}
PathSeparators == {"/", "\\"}

BuildRequest(entry, builder, sep) ==
    [name |-> "build", entry |-> entry, builder |-> builder, sep |-> sep,
     returned |-> FALSE]

InitCatalog ==
    /\ \/ request \in PaginateRequests \cup FilterRequests \cup ListRequests
       \/ \E ids \in SortIdLists :
              \E ents \in SortEntriesOf(ids) : request = SortRequest(ents)
       \/ \E query \in StringsUpTo(MaxQuery), value \in StringsUpTo(3) :
              request = MatchRequest(Str(query), Str(value))
       \/ \E pair \in MatchExamples : request = MatchRequest(pair[1], pair[2])
       \/ \E showTitle \in ShowTitleInputs, showSlug \in ShowSlugInputs,
             episodeTitle \in EpisodeTitleInputs,
             baseFileName \in BaseFileNameInputs,
             relativePath \in RelativePathInputs,
             identifier \in IdentifierInputs, builder \in Builders,
             sep \in PathSeparators :
              request = BuildRequest(TitleSource(showTitle, showSlug,
                                                 episodeTitle, baseFileName,
                                                 relativePath, identifier),
                                     builder, sep)
    /\ response = NoResponse

\* paginateEntries(entries, page, limit) runs
Paginate ==
    /\ request.name = "paginate"
    /\ ~request.returned
    /\ request' = [request EXCEPT !.returned = TRUE]
    /\ response' = PaginateEntries(request.entries, request.page,
                                   request.limit)
    /\ UNCHANGED <<storeVars, syncVars, selVars, rawVars>>

\* filterEntriesByStatus(entries, status) runs
Filter ==
    /\ request.name = "filter"
    /\ ~request.returned
    /\ request' = [request EXCEPT !.returned = TRUE]
    /\ response' = [NoResponse EXCEPT !.items =
                        FilterEntriesByStatus(request.entries,
                                              request.status)]
    /\ UNCHANGED <<storeVars, syncVars, selVars, rawVars>>

\* catalogEntries.slice().sort(compareCatalogEntriesDesc) runs
Sort ==
    /\ request.name = "sort"
    /\ ~request.returned
    /\ request' = [request EXCEPT !.returned = TRUE]
    /\ response' = [NoResponse EXCEPT !.items = SortEntries(request.entries)]
    /\ UNCHANGED <<storeVars, syncVars, selVars, rawVars>>

\* runListCommand(options) runs on the entries built from the manifest
List ==
    /\ request.name = "list"
    /\ ~request.returned
    /\ request' = [request EXCEPT !.returned = TRUE]
    /\ response' = RunListCommand(request.entries, request.page,
                                  request.limit, request.status)
    /\ UNCHANGED <<storeVars, syncVars, selVars, rawVars>>

\* createFuzzyMatcher(query) runs and its matcher is asked about value
Match ==
    /\ request.name = "match"
    /\ ~request.returned
    /\ request' = [request EXCEPT !.returned = TRUE]
    /\ response' = FuzzyMatch(request.query, request.value)
    /\ UNCHANGED <<storeVars, syncVars, selVars, rawVars>>

\* buildCatalogEntry(entry) runs
Build ==
    /\ request.name = "build"
    /\ ~request.returned
    /\ request' = [request EXCEPT !.returned = TRUE]
    /\ response' = BuildCatalogEntry(request.entry, request.builder,
                                     request.sep)
    /\ UNCHANGED <<storeVars, syncVars, selVars, rawVars>>

NextCatalog == Paginate \/ Filter \/ Sort \/ List \/ Match \/ Build

InitCatalogCalls ==
    InitManifest /\ InitSync /\ InitSelIdle /\ InitRawIdle /\ InitCatalog

SpecCatalog == InitCatalogCalls /\ [][NextCatalog]_vars

\* ---------------------------------------------------- claims: upsert spec

\* C1: starting with no entry for p.identifier, two upserts in a row with the
\* identical payload p return true and then false, for every payload that
\* carries an identifier.
C1_TrueThenFalse ==
    (op.name = "upsertTwice" /\ op.fresh) => (op.first /\ ~op.changed)

\* C4: every manifest entry sits under the key equal to its own identifier,
\* and that identifier is the one the entry was created with, after any
\* sequence of upserts and relative-path rewrites.
C4_KeyedByIdentifier ==
    \A k \in Ids :
        manifest[k].present =>
            manifest[k].identifier = k /\ created[k] = k

\* a relative-path rewrite has moved an entry to a new relativePath
C4_Witness ==
    /\ op.name = "rewrite" /\ op.changed
    /\ \E k \in Ids : manifest[k].present /\ manifest[k].relativePath = P2

\* the comparable fields of an entry as they are stored
StoredProjection(e) ==
    [metadata |-> e.metadata, relativePath |-> e.relativePath,
     playState |-> e.playState, skipReason |-> e.skipReason,
     lastProcessedAt |-> e.lastProcessedAt]

\* C5: upsert changes the entry and stamps lastUpdatedAt with the current
\* time only when the next comparable projection differs from the stored
\* one; when it returns false the manifest is exactly what it was.
C5_MutatesOnlyOnDifference ==
    [][op'.name = "upsert" =>
          /\ ~op'.changed => manifest' = manifest
          /\ manifest' # manifest => op'.changed
          /\ \A k \in Ids :
                manifest'[k] # manifest[k] =>
                    /\ manifest'[k].lastUpdatedAt = clock
                    /\ StoredProjection(manifest'[k])
                          # PrevComparable(manifest[k])]_vars

\* an upsert returned false on an entry stamped earlier than now
C5_Witness ==
    /\ op.name = "upsert" /\ ~op.changed
    /\ manifest["A"].present /\ manifest["A"].lastUpdatedAt < clock

\* C6: upsert advances lastProcessedAt to the current time only when the
\* payload has processed=true; otherwise lastProcessedAt keeps its value.
C6_ProcessedAtOnlyWhenProcessed ==
    [][op'.name = "upsert" =>
          \/ \A k \in Ids :
                manifest'[k].lastProcessedAt = manifest[k].lastProcessedAt
          \/ \A p \in Payloads :
                (Upsert(p) /\ p.identifier # "") =>
                    /\ p.processed
                    /\ manifest'[p.identifier].lastProcessedAt = clock
                    /\ \A k \in Ids \ {p.identifier} :
                          manifest'[k].lastProcessedAt
                             = manifest[k].lastProcessedAt]_vars

\* an upsert without processed changed entry "A" now and left its earlier
\* lastProcessedAt alone
C6_Witness ==
    /\ op.name = "upsert" /\ op.changed /\ ~manifest["B"].present
    /\ manifest["A"].lastUpdatedAt = clock
    /\ manifest["A"].lastProcessedAt \notin {NoTime, clock}

\* ----------------------------------------------------- claims: store spec

\* C7: for every identifier present in the manifest (with cached metadata)
\* and absent from the live metadata map, the merge puts a deep copy of the
\* cached metadata into the map under that identifier, leaves what the live
\* source reported alone, and leaves the manifest's own copy unmodified, also
\* when the copy in the map is written to afterwards.
C7_MergeInjectsDeepCopy ==
    [][/\ op'.name = "merge" =>
            /\ manifest' = manifest
            /\ \A i \in Ids :
                 /\ metadataMap[i].present => metadataMap'[i] = metadataMap[i]
                 /\ (manifest[i].present /\ manifest[i].metadata.kind = "object"
                     /\ ~metadataMap[i].present) =>
                        /\ metadataMap'[i].present
                        /\ metadataMap'[i].meta = manifest[i].metadata
                        /\ ~metadataMap'[i].shared
       /\ op'.name = "mutate" => manifest' = manifest]_vars

\* manifest {A, B} was merged into a live map that held only A: B's cached
\* metadata is in the map, A's live metadata is still the live one
C7_Witness ==
    /\ op.name = "merge"
    /\ manifest["A"].present /\ manifest["B"].present
    /\ manifest["B"].metadata = MetaObj("x-1", "unplayed")
    /\ metadataMap["B"] = Slot(MetaObj("x-1", "unplayed"), FALSE)
    /\ manifest["A"].metadata = MetaObj("x", "played")
    /\ metadataMap["A"] = Slot(MetaObj("x", "unplayed"), FALSE)

C2_WritesOnlyIfChanged ==
    (op.name = "pass" /\ pass.saveCalled) => manifest # pass.loaded

\* a pass over a non-empty persisted manifest that changed nothing and did
\* not write, and before it a pass that did
C2_Witness ==
    /\ op.name = "pass" /\ pass.outcome = "ok" /\ ~pass.saveCalled
    /\ file.kind = "valid" /\ manifest = file.entries
    /\ manifest["A"].present

\* C3: every identifier that was ever recorded in the persisted manifest is
\* still present in it, also when it is gone from the cache and from the
\* live source.
C3_NeverDeleted == everRecorded \subseteq RecordedIds(file)

\* the persisted manifest was rewritten by a pass that no longer saw "A" in
\* the cache nor in the live source
C3_Witness ==
    /\ op.name = "pass" /\ pass.saveCalled /\ ~pass.saveFailed
    /\ "A" \notin pass.identifiers /\ ~live["A"].present
    /\ "B" \in pass.identifiers
    /\ RecordedIds(file) = {"A", "B"}

\* C9: a failure of the manifest write is raised by save and by the pass
\* that called it: a pass whose write failed does not complete normally.
C9_SaveFailurePropagates ==
    /\ \A ents \in {EmptyEntries, manifest} :
          SaveListeningStatusManifest(file, ents, FALSE).threw
    /\ (op.name = "pass" /\ pass.saveFailed) => pass.outcome = "threw"

\* a pass changed an entry, called save, and the write failed
C9_Witness ==
    /\ op.name = "pass" /\ pass.saveCalled /\ pass.saveFailed
    /\ manifest # pass.loaded

\* -------------------------------------------------- claims: selector spec

\* C10: whatever keys preceded it, a confirm never passes an entry with
\* hasMarkdown = false to the resolution callback: every entry the callback
\* has received has its Markdown document.
C10_ConfirmNeverPassesMissing ==
    \A i \in result.indices : selEntries[i + 1].hasMarkdown

\* ------------------------------------------- claims: readline selector

C12_PageDerivedFromCursor ==
    /\ frame.drawn => frame.page = (frame.cursor \div frame.pageSize) + 1
    /\ state.currentPage = (state.cursor \div resolvedPageSize) + 1

\* a resize to one entry per page moved the frame to a later page
C12_Witness ==
    /\ frame.drawn
    /\ stdoutRows = 10
    /\ frame.pageSize = 1
    /\ frame.page = 3
    /\ frame.cursor = 2

\* the three keys that cancel
CancelKeys == {"escape", "ctrl-c", "q"}

\* C16: from every state that is not resolved, with or without digits in
\* the jump buffer, escape, ctrl-c and q each resolve the selector with null.
C16_CancelResolvesNull ==
    [][\A key \in CancelKeys :
           (~resolved /\ Keypress(key))
               => (resolved' /\ delivered' = <<NullResult>>)]_vars

\* cancelled while a jump buffer was being typed
C16_Witness ==
    /\ resolved
    /\ delivered = <<NullResult>>
    /\ state.commandBuffer # <<>>

\* C17: the cursor glyph is hidden while the selector is interactive and
\* visible once it has exited, whether by an entry, a cancel or an abrupt
\* end of the process.
C17_GlyphRestoredOnEveryExit ==
    /\ (alive /\ ~resolved) => glyphHidden
    /\ (resolved \/ ~alive) => ~glyphHidden

\* the keys that move a page, and the direction of each
PageKeys == {"left", "pageup", "p", "right", "pagedown", "n"}
PageDelta(key) == IF key \in {"left", "pageup", "p"} THEN -1 ELSE 1
PageCount == Max2(CeilDiv(Len(entries), resolvedPageSize), 1)

\* C15 as stated: a page move from any cursor position ends on the page next
\* to the current one (the first or last page at the ends) with the cursor
\* on the first index of that page.
C15_PageMoveLandsOnFirstIndex ==
    [][\A key \in PageKeys :
           (~resolved /\ Keypress(key))
               => LET destinationPage ==
                          Max2(1, Min2(PageCount,
                                       state.currentPage + PageDelta(key)))
                  IN  /\ state'.currentPage = destinationPage
                      /\ state'.cursor =
                             (destinationPage - 1) * resolvedPageSize]_vars

\* C15 amended: a page move towards an existing neighbour page shifts the
\* page by exactly one and puts the cursor on the first index of that page;
\* a page move back on the first page or forward on the last page leaves
\* page and cursor as they are and sets a status message.
C15_PageMoveShiftsOrStays ==
    [][(/\ ~resolved /\ ~resolved'
        /\ alive'
        /\ stdoutRows' = stdoutRows
        /\ state'.commandBuffer = <<>>)
           => \A key \in PageKeys :
                  Keypress(key)
                      => LET target == state.currentPage + PageDelta(key)
                         IN  IF target \in 1..PageCount
                             THEN /\ state'.currentPage = target
                                  /\ state'.cursor =
                                         (target - 1) * resolvedPageSize
                                  /\ frame'.page = target
                             ELSE /\ state'.currentPage = state.currentPage
                                  /\ state'.cursor = state.cursor
                                  /\ state'.statusMessage
                                         \in {"firstPage", "lastPage"}]_vars

\* a page move forward reached the first index of the second page
C15_Witness ==
    /\ ~resolved
    /\ resolvedPageSize = 2
    /\ state.currentPage = 2
    /\ state.cursor = 2
    /\ state.statusMessage = NULL
    /\ Len(entries) = 3

\* ------------------------------------------------ claims: ink selector

\* C13: return with the number n in the jump buffer resolves the entry at
\* list index n - 1 when it exists and has its document, rejects with a
\* message otherwise, and leaves the jump buffer empty in all three cases.
C13_JumpResolvesOneBased ==
    [][(KeyReturn /\ commandBuffer # <<>>)
           => LET n == ParseInt(commandBuffer)
              IN  /\ commandBuffer' = <<>>
                  /\ IF n \notin 1..Len(selEntries)
                     THEN ~settled' /\ statusMessage' = "outOfRange"
                     ELSE IF ~selEntries[n].hasMarkdown
                     THEN ~settled' /\ statusMessage' = "notFound"
                     ELSE /\ settled'
                          /\ result' = [kind |-> "entry",
                                        indices |-> {n - 1}]]_vars

\* an entry other than the one under the cursor was resolved by its number
C13_Witness ==
    /\ settled
    /\ result.kind = "entry"
    /\ selectedSet = {}
    /\ cursor \notin result.indices
    /\ commandBuffer = <<>>

\* C14 as stated: whenever return with an empty jump buffer resolves, it
\* resolves the entry at the cursor.
C14_ConfirmResolvesCursorEntry ==
    [][(KeyReturn /\ commandBuffer = <<>> /\ ~settled /\ settled')
           => result'.indices = {cursor}]_vars

\* C14 amended: return with an empty jump buffer and nothing selected with
\* the space key resolves the entry at the cursor when it has its document
\* and rejects otherwise; with indices selected it resolves the selected
\* entries of the list instead, wherever the cursor is, and rejects when the
\* list holds none of them.
C14_ConfirmResolvesCursorOrSelection ==
    [][(KeyReturn /\ commandBuffer = <<>> /\ ~settled)
           => IF selectedSet # {}
              THEN IF \E i \in selectedSet : i < Len(selEntries)
                   THEN /\ settled'
                        /\ result' = [kind |-> "entries",
                                      indices |-> selectedSet]
                   ELSE ~settled' /\ statusMessage' = "noValidSelected"
              ELSE IF Len(selEntries) > 0 /\ selEntries[cursor + 1].hasMarkdown
              THEN /\ settled'
                   /\ result' = [kind |-> "entry", indices |-> {cursor}]
              ELSE ~settled' /\ statusMessage' \in {"outOfRange", "notFound"}]_vars

\* the cursor's entry was resolved after the cursor had moved
C14_Witness ==
    /\ settled
    /\ result = [kind |-> "entry", indices |-> {cursor}]
    /\ cursor > 0
    /\ selectedSet = {}
    /\ statusMessage = NULL

\* ------------------------------------------------------ claims: catalog

\* C18 as stated: paginate reports totalPages = max(ceil(total / limit), 1),
\* and for an empty list a single page: no items, total 0, page 1,
\* totalPages 1.
C18_EmptyListIsOnePage ==
    (request.name = "paginate" /\ request.returned)
        => /\ (response.totalPages - 1) * response.limit < response.total
              \/ response.totalPages = 1
           /\ response.total <= response.totalPages * response.limit
           /\ response.totalPages >= 1
           /\ Len(request.entries) = 0
                  => /\ response.items = <<>>
                     /\ response.total = 0
                     /\ response.page = 1
                     /\ response.totalPages = 1

\* C18 amended: for a list that is not empty paginate reports
\* totalPages = ceil(total / limit), which is at least 1; for an empty list
\* it returns no items, total 0, page 0 and totalPages 0.
C18_PageCount ==
    (request.name = "paginate" /\ request.returned)
        => IF Len(request.entries) = 0
           THEN /\ response.items = <<>>
                /\ response.total = 0
                /\ response.page = 0
                /\ response.totalPages = 0
           ELSE /\ response.total = Len(request.entries)
                /\ response.totalPages >= 1
                /\ (response.totalPages - 1) * response.limit
                       < response.total
                /\ response.total <= response.totalPages * response.limit

\* 25 entries at 10 a page make 3 pages
C18_Witness ==
    /\ request.name = "paginate"
    /\ request.returned
    /\ Len(request.entries) = 25
    /\ request.limit = Num(10)
    /\ response.totalPages = 3

\* the page a request asks for, read off the value by hand
RequestedPage(page) ==
    IF page.t = "number" THEN page.n
    ELSE IF page = Str(<<"2">>) \/ page = Str(<<"2", "x">>) THEN 2
    ELSE IF page = Str(<<" ", "3">>) THEN 3
    ELSE IF page = Str(<<"-", "1">>) THEN -1
    ELSE 0

\* the 25-entry example of C19
PaginationBounds ==
    (Len(request.entries) = 25 /\ request.limit = Num(10))
        => /\ response.totalPages = 3
           /\ request.page = Num(1) => Len(response.items) = 10
           /\ request.page = Num(3) => Len(response.items) = 5
           /\ request.page = Num(99)
                  => response.items = SubSeq(request.entries, 21, 25)

\* C19 as stated: for every list and every requested page the returned page
\* lies in 1..totalPages, and the 25-entry example holds.
C19_PageClampedForEveryList ==
    (request.name = "paginate" /\ request.returned)
        => /\ response.page \in 1..response.totalPages
           /\ PaginationBounds

\* C19 amended: for every list that is not empty and every requested page
\* the returned page is the requested one clamped into 1..totalPages (1 when
\* the request is missing, not a number or below 1) and the items are that
\* page's slice; for an empty list the page is 0; the 25-entry example holds.
C19_PageClampedWhenNotEmpty ==
    (request.name = "paginate" /\ request.returned)
        => /\ IF Len(request.entries) = 0 THEN response.page = 0
              ELSE /\ response.page \in 1..response.totalPages
                   /\ response.page =
                          Max2(1, Min2(response.totalPages,
                                       RequestedPage(request.page)))
                   /\ response.items =
                          SubSeq(request.entries,
                                 (response.page - 1) * response.limit + 1,
                                 Min2(response.page * response.limit,
                                      response.total))
           /\ PaginationBounds

\* page 99 of 25 entries at 10 a page came back as page 3 with 5 items
C19_Witness ==
    /\ request.name = "paginate"
    /\ request.returned
    /\ Len(request.entries) = 25
    /\ request.limit = Num(10)
    /\ request.page = Num(99)
    /\ response.page = 3
    /\ Len(response.items) = 5

\* the play states a status keeps
KeptStates(status) ==
    IF status = "unplayed" THEN {"unplayed", "inProgress"}
    ELSE IF status = "played" THEN {"played"}
    ELSE {"inProgress"}

\* C20: "unplayed" keeps the entries that are unplayed or inProgress,
\* "played" only the played ones, "inProgress" only those in progress, and
\* "all" or no status keeps every entry, in the order given.
C20_StatusFilter ==
    (request.name = "filter" /\ request.returned)
        => /\ request.status \in {"all", "", UNDEF, NULL}
                  => response.items = request.entries
           /\ request.status \in {"unplayed", "played", "inProgress"}
                  => /\ {e.id : e \in {response.items[i] :
                                           i \in 1..Len(response.items)}}
                         = {i \in 1..Len(request.entries) :
                                NormalizePlayState(
                                    request.entries[i].playState)
                                    \in KeptStates(request.status)}
                     /\ \A i, j \in 1..Len(response.items) :
                            i < j => response.items[i].id
                                     < response.items[j].id
                     /\ \A i \in 1..Len(response.items) :
                            response.items[i]
                                = request.entries[response.items[i].id]

\* "unplayed" kept an entry in progress and dropped a played one
C20_Witness ==
    /\ request.name = "filter"
    /\ request.returned
    /\ request.status = "unplayed"
    /\ Len(request.entries) = 2
    /\ request.entries[1].playState = "played"
    /\ request.entries[2].playState = "in-progress"
    /\ Len(response.items) = 1
    /\ response.items[1].id = 2

\* the identifiers of the entries of a list
IdsOf(list) == {list[i].id : i \in 1..Len(list)}

\* the entries whose play state normalizePlayState does not recognize
UnrecognizedIds(list) ==
    {list[i].id : i \in {j \in 1..Len(list) :
        NormalizePlayState(list[j].playState)
            \notin {"played", "inProgress", "unplayed"}}}

\* C21: for every entry list, filter("unplayed"), filter("played") and the
\* entries of unrecognized play state together make up filter("all"), and
\* filter("unplayed") and filter("played") share no entry.
C21_StatusPartition ==
    (request.name = "filter" /\ request.returned)
        => LET unplayed == IdsOf(FilterEntriesByStatus(request.entries,
                                                       "unplayed"))
               played == IdsOf(FilterEntriesByStatus(request.entries,
                                                     "played"))
               all == IdsOf(FilterEntriesByStatus(request.entries, "all"))
           IN  /\ unplayed \cup played \cup UnrecognizedIds(request.entries)
                      = all
               /\ unplayed \cap played = {}
               /\ request.status \in {"unplayed", "played", "all"}
                      => IdsOf(response.items)
                             = IdsOf(FilterEntriesByStatus(request.entries,
                                                           request.status))

\* a list with an entry in progress and one of unknown state was filtered
C21_Witness ==
    /\ request.name = "filter"
    /\ request.returned
    /\ request.status = "played"
    /\ Len(request.entries) = 2
    /\ request.entries[1].playState = "inProgress"
    /\ request.entries[2].playState = "paused"
    /\ response.items = <<>>

\* the list in another order
Permuted(list, perm) == [i \in 1..Len(list) |-> list[perm[i]]]

\* a title as the documented order reads it: every letter in lower case
FoldCase(title) ==
    [i \in 1..Len(title) |->
        CASE title[i] = "A" -> "a" [] title[i] = "B" -> "b"
          [] OTHER -> title[i]]

\* a and b, in this order, follow the documented order: newer first, then
\* show title, then episode title, both without regard to case
InDocumentedOrder(a, b) ==
    \/ a.sortTimestamp > b.sortTimestamp
    \/ /\ a.sortTimestamp = b.sortTimestamp
       /\ \/ ComparePrimary(FoldCase(a.showTitle), FoldCase(b.showTitle)) < 0
          \/ /\ FoldCase(a.showTitle) = FoldCase(b.showTitle)
             /\ ComparePrimary(FoldCase(a.episodeTitle),
                               FoldCase(b.episodeTitle)) <= 0

\* C22: the comparator orders by descending sortTimestamp, then show title
\* and episode title without regard to case, then identifier; two entries
\* of different identifiers never compare equal, so every permutation of
\* the same entries sorts to the same sequence.
C22_SortIsDeterministic ==
    (request.name = "sort" /\ request.returned)
        => LET list == request.entries
               n == Len(list)
           IN  /\ \A i, j \in 1..n :
                      /\ i # j => CompareCatalogEntriesDesc(list[i], list[j]) # 0
                      /\ Sign(CompareCatalogEntriesDesc(list[i], list[j]))
                             = 0 - Sign(CompareCatalogEntriesDesc(list[j],
                                                                  list[i]))
               /\ \A perm \in Permutations(1..n) :
                      SortEntries(Permuted(list, perm)) = response.items
               /\ \A i \in 1..n : \E j \in 1..n : response.items[j] = list[i]
               /\ Len(response.items) = n
               /\ \A i \in 1..(n - 1) :
                      /\ InDocumentedOrder(response.items[i],
                                           response.items[i + 1])
                      /\ CompareCatalogEntriesDesc(response.items[i],
                                                   response.items[i + 1]) < 0

\* three entries of one timestamp whose titles differ in case only were
\* sorted: the identifier decided, and the order given was not the result
C22_Witness ==
    /\ request.name = "sort"
    /\ request.returned
    /\ Len(request.entries) = 3
    /\ \A i \in 1..3 :
           /\ request.entries[i].sortTimestamp = 1
           /\ FoldCase(request.entries[i].showTitle) = <<"a">>
           /\ FoldCase(request.entries[i].episodeTitle) = <<"b">>
    /\ request.entries[1].showTitle # request.entries[2].showTitle
    /\ request.entries[1].identifier = <<"a", "b">>
    /\ request.entries[2].identifier = <<"A">>
    /\ request.entries[3].identifier = <<"a">>
    /\ response.items[1].identifier = <<"a">>
    /\ response.items[3].identifier = <<"a", "b">>

\* the entries of the manifest that are unplayed or in progress
UnplayedSubset ==
    {request.entries[i] : i \in {j \in 1..Len(request.entries) :
        NormalizePlayState(request.entries[j].playState)
            \in {"unplayed", "inProgress"}}}

\* the place of an entry of the subset in the documented sort order
RankInSubset(e) ==
    1 + Cardinality({x \in UnplayedSubset :
                         CompareCatalogEntriesDesc(x, e) < 0})

\* items first..last of the subset in the documented sort order
SubsetItems(first, last) ==
    [r \in 1..(last - first + 1) |->
        CHOOSE e \in UnplayedSubset : RankInSubset(e) = first + r - 1]

\* the list command ran on 25 entries, 10 of them played, with
\* status "unplayed", limit 10 and page 2
ListScenario ==
    /\ request.name = "list"
    /\ request.returned
    /\ Len(request.entries) = 25
    /\ Cardinality(UnplayedSubset) = 15
    /\ request.status = "unplayed"
    /\ request.limit = Num(10)
    /\ request.page = Num(2)

\* C23 as stated: page 2 of the 15 unplayed-or-inProgress entries at limit
\* 10 is items 6-10 of that subset, and totalPages is 2.
C23_PageTwoIsItemsSixToTen ==
    ListScenario
        => /\ response.items = SubsetItems(6, 10)
           /\ response.totalPages = 2

\* C23: listing with status "unplayed" returns the requested page of the
\* unplayed-or-inProgress subset in the documented sort order; for 25
\* entries, 10 of them played, limit 10 and page 2 these are items 11-15
\* of the subset, and totalPages is 2.
C23_PageTwoIsItemsElevenToFifteen ==
    /\ ListScenario
           => /\ response.items = SubsetItems(11, 15)
              /\ response.totalPages = 2
              /\ response.page = 2
              /\ response.total = 15
    /\ (request.name = "list" /\ request.returned
            /\ request.status = "unplayed")
           => LET m == Cardinality(UnplayedSubset)
                  limit == IF request.limit.t = "number"
                           THEN request.limit.n ELSE DEFAULT_LIST_LIMIT
                  pages == CeilDiv(m, limit)
                  wanted == IF request.page.t = "number"
                            THEN request.page.n ELSE 1
                  page == Min2(wanted, pages)
              IN  /\ response.totalPages = pages
                  /\ response.page = page
                  /\ response.items
                         = SubsetItems((page - 1) * limit + 1,
                                       Min2(page * limit, m))

\* the scenario ran, with unplayed and inProgress entries on page 2
C23_Witness ==
    /\ ListScenario
    /\ Len(response.items) = 5
    /\ \E i, j \in 1..5 :
           /\ response.items[i].playState = "unplayed"
           /\ response.items[j].playState = "inProgress"

\* the four strategies, on the query and the candidate of the request
NormalizedQuery == NormalizeMatchValue(request.query)
NormalizedCandidate == NormalizeMatchValue(request.value)
WithoutBlanks(s) == SelectSeq(s, LAMBDA c : c # " ")
InitialsOf(s) ==
    LET tokens == SplitTokens(s, <<>>)
    IN  [i \in 1..Len(tokens) |-> Head(tokens[i])]

SubstringStrategy == Includes(NormalizedCandidate, NormalizedQuery)
CollapsedStrategy ==
    Includes(WithoutBlanks(NormalizedCandidate), WithoutBlanks(NormalizedQuery))
TokenStrategy ==
    LET tokens == SplitTokens(NormalizedQuery, <<>>)
    IN  \A i \in 1..Len(tokens) : Includes(NormalizedCandidate, tokens[i])
InitialsStrategy ==
    Includes(InitialsOf(NormalizedCandidate), InitialsOf(NormalizedQuery))

\* C24: a candidate matches a query exactly when the normalized query is
\* a substring of the normalized candidate, or the collapsed query of the
\* collapsed candidate, or every query token is a substring of the
\* normalized candidate, or the query's initials are a substring of the
\* candidate's initials; "HF" matches "Hard Fork" and "hard fork" matches
\* "Hard Fork: AI Edition".
C24_MatchIsAnyOfFourStrategies ==
    (request.name = "match" /\ request.returned /\ response.matcher)
        => /\ response.matched
                  <=> \/ SubstringStrategy
                      \/ CollapsedStrategy
                      \/ TokenStrategy
                      \/ InitialsStrategy
           /\ (request.query = Str(HF) /\ request.value = Str(HardFork))
                  => response.matched
           /\ (request.query = Str(HardForkLower)
                   /\ request.value = Str(HardForkAiEdition))
                  => response.matched

\* "HF" was matched against "Hard Fork" by its initials alone
C24_Witness ==
    /\ request.name = "match"
    /\ request.returned
    /\ request.query = Str(HF)
    /\ request.value = Str(HardFork)
    /\ response.matcher
    /\ response.matched
    /\ InitialsStrategy
    /\ ~SubstringStrategy /\ ~CollapsedStrategy /\ ~TokenStrategy

\* the title-cased slug of the show and of the episode, when there is one
ShowSlugTitle ==
    IF Truthy(request.entry.showSlug)
    THEN Str(FormatSlugAsTitle(request.entry.showSlug.s))
    ELSE JsNull
EpisodeSlugTitle == FallbackEpisodeTitle(request.entry)

\* C25 as stated: both titles are the first available of the metadata
\* title, the title-cased slug, the raw relative path, the raw identifier
\* and the "Unknown ..." sentinel, and neither is blank.
C25_TitlesShareOnePrecedence ==
    (request.name = "build" /\ request.returned)
        => /\ response.showTitle
                  = FirstTruthy(<<request.entry.showTitle, ShowSlugTitle,
                                  request.entry.relativePath,
                                  request.entry.identifier,
                                  Str(UnknownShow)>>)
           /\ response.episodeTitle
                  = FirstTruthy(<<request.entry.episodeTitle,
                                  EpisodeSlugTitle,
                                  request.entry.relativePath,
                                  request.entry.identifier,
                                  Str(UnknownEpisode)>>)
           /\ response.showTitle # <<>>
           /\ response.episodeTitle # <<>>

\* C25: the episode title is the first available of the metadata title,
\* the title-cased slug of the base file name, the relative path with "/"
\* separators, the identifier and "Unknown episode"; the show title is the
\* metadata title unless it is missing or the placeholder "unknown show",
\* else the title-cased show slug, else "Unknown show", and never the path
\* or the identifier. The episode title is never empty; the show title is
\* empty only in the builder of extract-transcripts.js, for a slug of
\* hyphens only.
C25_TitlePrecedence ==
    (request.name = "build" /\ request.returned)
        => LET entry == request.entry
               path == NormalizedRelativePath(entry, request.sep)
           IN  /\ response.episodeTitle
                      = IF Truthy(entry.episodeTitle)
                        THEN entry.episodeTitle.s
                        ELSE IF Truthy(EpisodeSlugTitle)
                        THEN EpisodeSlugTitle.s
                        ELSE IF Truthy(path) THEN path.s
                        ELSE IF Truthy(entry.identifier)
                        THEN entry.identifier.s
                        ELSE UnknownEpisode
               /\ response.episodeTitle # <<>>
               /\ response.showTitle
                      = IF Truthy(entry.showTitle)
                           /\ entry.showTitle.s # UnknownShowPlaceholder
                        THEN entry.showTitle.s
                        ELSE IF Truthy(ShowSlugTitle) THEN ShowSlugTitle.s
                        ELSE IF Truthy(entry.showSlug)
                                /\ request.builder = "extract"
                        THEN <<>>
                        ELSE UnknownShow
               /\ request.builder = "catalog" => response.showTitle # <<>>

\* an entry with no metadata but a path and an identifier was built: the
\* episode title is the path, the show title the sentinel
C25_Witness ==
    /\ request.name = "build"
    /\ request.returned
    /\ request.builder = "catalog"
    /\ ~Truthy(request.entry.showTitle)
    /\ ~Truthy(request.entry.showSlug)
    /\ ~Truthy(request.entry.episodeTitle)
    /\ ~Truthy(request.entry.baseFileName)
    /\ request.entry.relativePath = Str(<<"s", "\\", "e">>)
    /\ request.sep = "\\"
    /\ Truthy(request.entry.identifier)
    /\ response.episodeTitle = <<"s", "/", "e">>
    /\ response.showTitle = UnknownShow

\* ------------------------------------------- claims: sync spec, again
\* C26: no operation of the core ends the process itself; a failure is
\* recovered, returned or raised to the caller.  For the synchronization
\* pass: no run ends in process.exit.
C26_CoreNeverExits == pass.outcome # "exit"

\* C27: when a synchronization pass is followed at once by another with the
\* same options, and nothing outside changed in between (same cache, same
\* live metadata, the documents as the first pass left them), the second
\* pass changes no manifest entry and does not write the manifest.
C27_SecondPassIsQuiet ==
    [][(/\ op.name = "pass" /\ pass.outcome = "ok"
        /\ clock' # clock
        /\ op'.name = "pass" /\ op'.input = op.input)
           => /\ manifest' = manifest
              /\ ~pass'.saveCalled]_vars

\* ------------------------------------------- claims: either selector
\* C28: with a non-empty entry list the cursor index stays within
\* 0..length-1 after any sequence of key presses and resize events, in the
\* ink selector and in the readline selector.
C28_CursorInRange ==
    /\ selEntries # <<>> => cursor \in 0..(Len(selEntries) - 1)
    /\ entries # <<>> => state.cursor \in 0..(Len(entries) - 1)

\* the ink selector, after a toggle and further keys, stands on its last
\* entry with the terminal resized
C28_Witness ==
    /\ Len(selEntries) = MaxEntries
    /\ cursor = Len(selEntries) - 1
    /\ selectedSet = {0}
    /\ statusMessage = "lastItem"
    /\ terminalRows = 10
    /\ ~exited

\* ------------------------------------------------ claims: file names
\* C29: within one synchronization pass distinct source items are given
\* distinct output paths, so no document is written over another and no
\* two entries upserted in the pass share a relativePath.
C29_DistinctOutputPaths ==
    (request.name = "paths" /\ request.returned)
        => \A i, j \in 1..Len(response.paths) :
               i # j => response.paths[i] # response.paths[j]

\* ------------------------------------------ claims: selector, its result
\* C30: the selector yields a null result only when the user cancelled; a
\* failure to start or run the selector reaches the caller as an error,
\* never as a null result.  Every step that settles the promise with null
\* is the cancel key on the mounted view.
C30_NullOnlyOnCancel ==
    [][(~settled /\ settled' /\ result' = NullResult) => KeyCancel]_vars

====
